---------------------------- MODULE Spec2Model ----------------------------
(***************************************************************************)
(* A model of lil-mocky (src/src/lil-mocky.js): function mocks, object     *)
(* mocks and class mocks, their argument processing, call recording,       *)
(* outcome resolution and reset.                                           *)
(*                                                                         *)
(* JavaScript values are tagged records [t |-> tag, v |-> payload]; the    *)
(* tag is compared first, so values of different kinds are never compared  *)
(* by payload.  JavaScript arrays are 0-based, TLA+ sequences 1-based:     *)
(* calls[i] of the program is At(calls, i) here.                           *)
(***************************************************************************)
EXTENDS Integers, Sequences, FiniteSets, TLC

VARIABLES
    options,    \* the builder's options object (functionBuilder, line 8)
    built,      \* whether build() has run: the state object and the live mock exist
    state,      \* the live mock's state object (wireFunction/getFunctionBody)
    mockData,   \* the live mock's own data property: the bag it refers to
    last,       \* what the most recent operation was and what it delivered
    reg,        \* history: the outcome last registered per slot and still in force
    regB,       \* history: the outcome last registered per slot on the builder
    inputs,     \* history: the raw arguments of each invocation since build/reset
    seen,       \* history: the processed arguments as they looked at each invocation
    heap,       \* the caller's objects, by reference
    object,     \* the object mock built by objectBuilder(props).build()
    class,      \* the class mock built by classBuilder(members).build()
    insts,      \* the instances the test constructed with new Mock(...)
    cfg,        \* history: the constructions and, per slot, what the test configured
    pending     \* the invocations of the function mock that were made and are not
                \* over: inside their body, or a promise nobody awaited yet

vars == <<options, built, state, mockData, last, reg, regB, inputs, seen, heap,
          object, class, insts, cfg, pending>>

\* the parts of the state that belong to the object mock and the class
\* mock, and the invocations that are not over
composite == <<object, class, insts, cfg, pending>>

----------------------------------------------------------------------------
(* Bounds *)

\* invocations of one function mock between two resets
MaxCalls == 2

\* positional inputs of one invocation, where the argument processor is checked
MaxArgs == 3

\* Description slots of a class mock the tests construct or pre-configure
MaxInst == 2

----------------------------------------------------------------------------
(* Values *)

P(s) == [t |-> "prim", v |-> s]
Undefined == [t |-> "undef", v |-> ""]
Null == [t |-> "null", v |-> ""]
\* an Error instance, known by its message
Err(m) == [t |-> "error", v |-> m]
\* a reference to one of the caller's objects
Ref(r) == [t |-> "ref", v |-> r]
\* an array and a plain object owned by whoever holds the value
Arr(s) == [t |-> "arr", v |-> s]
Obj(s) == [t |-> "obj", v |-> s]
\* one own property of an object: key k with value x, in insertion order
Entry(k, x) == [k |-> k, x |-> x]
\* Map.get/Map.has miss
Absent == [t |-> "absent", v |-> ""]

\* a function of the caller, known by its name: two functions are the same
\* function when they have the same name
Func(name) == [t |-> "func", v |-> name]

\* the objects a call can have as its receiver besides the caller's own: the
\* object mock at a path, the Description of a slot, the instance bound to
\* a slot and the class mock (the constructor function)
Container(path) == [t |-> "container", v |-> path]
DescriptionAt(index) == [t |-> "description", v |-> index]
InstanceAt(index) == [t |-> "instance", v |-> index]
ClassItself == [t |-> "classMock", v |-> ""]

\* no mock of this kind was built
NoMock == [t |-> "none", v |-> <<>>]

\* { [THROW_MARKER]: true, error }
Wrapped(error) == [t |-> "throwMarker", v |-> error]

\* ret?.[THROW_MARKER]
HasThrowMarker(ret) == ret.t = "throwMarker"

\* seq[i] of a JavaScript array: undefined out of range
At(seq, i) == IF i + 1 \in DOMAIN seq THEN seq[i + 1] ELSE Undefined

\* call indexes the tests register overrides for
Idx == {0, 1}


----------------------------------------------------------------------------
(* The caller's objects *)

\* a plain object literal, an array, and an object made by a constructor
\* other than Object; each holds its own properties or elements in v
Inst(s) == [t |-> "inst", v |-> s]

Refs == {"o1", "o2", "a1", "c1"}

\* const o2 = { value: 'original' }, o1 = { nested: o2 }, a1 = [o2, 'x'],
\* c1 = new SomeClass()
InitHeap ==
    [r \in Refs |->
        CASE r = "o1" -> Obj(<<Entry("nested", Ref("o2"))>>)
          [] r = "o2" -> Obj(<<Entry("value", P("original"))>>)
          [] r = "a1" -> Arr(<<Ref("o2"), P("x")>>)
          [] OTHER    -> Inst(<<Entry("tag", P("c"))>>)]

\* object[key] = x on a property list: an existing key keeps its place
RECURSIVE SetKey(_, _, _)
SetKey(entries, k, x) ==
    IF entries = <<>> THEN <<Entry(k, x)>>
    ELSE IF Head(entries).k = k THEN <<Entry(k, x)>> \o Tail(entries)
    ELSE <<Head(entries)>> \o SetKey(Tail(entries), k, x)

HasKey(entries, k) == \E i \in DOMAIN entries : entries[i].k = k

\* object[key]: undefined when the key is not there
GetKey(entries, k) ==
    IF HasKey(entries, k)
    THEN entries[CHOOSE i \in DOMAIN entries : entries[i].k = k].x
    ELSE Undefined

----------------------------------------------------------------------------
(* deepClone, lines 309-325 *)

\* a copy that shares every nested object with its source
ShallowClone(h, target) ==
    IF target.t = "ref" /\ h[target.v].t = "arr" THEN Arr(h[target.v].v)
    ELSE IF target.t = "ref" /\ h[target.v].t = "obj" THEN Obj(h[target.v].v)
    ELSE target

RECURSIVE deepClone(_, _)
deepClone(h, target) ==
    IF target.t = "ref"
    THEN \* an object of the caller: an array and a plain object
         \* (constructor === Object) are copied, anything else is kept
         IF h[target.v].t \in {"arr", "obj"} THEN deepClone(h, h[target.v])
         ELSE target
    ELSE IF target.t = "arr"
    THEN Arr([i \in DOMAIN target.v |-> deepClone(h, target.v[i])])
    ELSE IF target.t = "obj"
    THEN Obj([i \in DOMAIN target.v |->
                Entry(target.v[i].k, deepClone(h, target.v[i].x))])
    ELSE target

\* deepClone has no memory of what it is copying (lines 309-325): on an
\* array or plain object that holds itself, directly or through other
\* arrays and plain objects, the recursion has no end and the engine stops
\* it with a RangeError (call stack exceeded).  path is the set of the
\* caller's objects the recursion is inside of.
RECURSIVE NeverEnds(_, _, _)
NeverEnds(h, target, path) ==
    IF target.t = "ref"
    THEN /\ h[target.v].t \in {"arr", "obj"}
         /\ \/ target.v \in path
            \/ NeverEnds(h, h[target.v], path \cup {target.v})
    ELSE IF target.t = "arr"
    THEN \E i \in DOMAIN target.v : NeverEnds(h, target.v[i], path)
    ELSE IF target.t = "obj"
    THEN \E i \in DOMAIN target.v : NeverEnds(h, target.v[i].x, path)
    ELSE FALSE

\* what a reader of value x sees now: every reference followed through h
RECURSIVE View(_, _)
View(h, x) ==
    IF x.t = "ref"
    THEN [t |-> h[x.v].t,
          v |-> [i \in DOMAIN h[x.v].v |->
                    IF h[x.v].t = "arr" THEN View(h, h[x.v].v[i])
                    ELSE Entry(h[x.v].v[i].k, View(h, h[x.v].v[i].x))]]
    ELSE IF x.t = "arr"
    THEN Arr([i \in DOMAIN x.v |-> View(h, x.v[i])])
    ELSE IF x.t = "obj"
    THEN Obj([i \in DOMAIN x.v |-> Entry(x.v[i].k, View(h, x.v[i].x))])
    ELSE x

----------------------------------------------------------------------------
(* getFunctionArgs, lines 132-160 *)

\* a declared parameter: 'name' (a string) or { name: defaultValue }
Name(n) == [str |-> TRUE, name |-> n, dflt |-> Undefined]
NameDefault(n, d) == [str |-> FALSE, name |-> n, dflt |-> d]

\* options.select.includes(i)
Includes(select, i) == \E j \in DOMAIN select : select[j] = i

\* an input counts only when it is truthy
PresentTruthy(x) == x \notin {Undefined, Null}

\* callArgs[i] !== undefined, line 153
Present(x) == x # Undefined

\* the selected parameters taken in the order of the selection list
NamedArgsListOrder(callArgs, opts, i, args) ==
    LET entry(p) == Entry(opts.args[p + 1].name,
                          IF At(callArgs, p) # Undefined THEN At(callArgs, p)
                          ELSE opts.args[p + 1].dflt)
        named == SelectSeq(opts.select, LAMBDA p : p < Len(opts.args))
    IN IF Len(opts.select) = 0
       THEN [j \in 1 .. Len(opts.args) |-> entry(j - 1)]
       ELSE [j \in 1 .. Len(named) |-> entry(named[j])]

\* the loop of lines 140-154, from declared parameter i on
RECURSIVE NamedArgs(_, _, _, _)
NamedArgs(callArgs, opts, i, args) ==
    IF i >= Len(opts.args) THEN args
    ELSE IF Len(opts.select) # 0 /\ ~Includes(opts.select, i)
    THEN NamedArgs(callArgs, opts, i + 1, args)
    ELSE LET decl == opts.args[i + 1]
             argName == decl.name
             defaultValue == IF decl.str THEN Undefined ELSE decl.dflt
             value == IF Present(At(callArgs, i)) THEN At(callArgs, i)
                      ELSE defaultValue
         IN NamedArgs(callArgs, opts, i + 1, SetKey(args, argName, value))

\* declared names taking precedence over a single selection
NamesBeforeSelect(callArgs, opts) ==
    IF Len(opts.args) # 0 THEN Obj(NamedArgs(callArgs, opts, 0, <<>>))
    ELSE IF Len(opts.select) = 1 THEN At(callArgs, opts.select[1])
    ELSE Arr(callArgs)

getFunctionArgs(callArgs, opts) ==
    IF Len(opts.select) = 1 THEN At(callArgs, opts.select[1])
    ELSE IF Len(opts.args) # 0 THEN Obj(NamedArgs(callArgs, opts, 0, <<>>))
    ELSE Arr(callArgs)

----------------------------------------------------------------------------
(* functionBuilder and wireFunction, lines 7-87 *)

\* custom bodies a test author passes to functionBuilder(body):
\*   "none"   no body;
\*   "store"  (ctx) => { ctx.data.k = 'd'; return ctx.ret };
\*   "raise"  (ctx) => { throw new Error('body') }
\* and, where ctx.self and ctx.original matter:
\*   "attach" (ctx) => { ctx.self.extra = 'attached'; return ctx.ret };
\*   "fixed"  (ctx) => 'body';
\*   "read"   (ctx) => ctx.data.k;
\*   "spy"    the body createSpy gives a spy with no replacement, lines 335-340;
\*   "again"  (ctx) => { ...; mock(...); ...; return ctx.ret }, a body
\*            that may call the mock it belongs to before it returns;
\*   "nest"   (ctx) => { ...; new Mock(); ...; return ctx.ret }, the body
\*            of a constructor member that may construct another instance;
\*   "mark"   (ctx) => { const a = ctx.args;
\*                       if (Array.isArray(a)) a[0] = 'marked';
\*                       else if (a && typeof a === 'object') a.x = 'marked';
\*                       return ctx.rawArgs }
Bodies == {"none", "store", "raise"}

\* the options object of functionBuilder(body), lines 8-16
NewOptions(body) ==
    [async      |-> FALSE,
     body       |-> body,
     args       |-> <<>>,
     select     |-> <<>>,
     original   |-> Undefined,
     defaultRet |-> [has |-> FALSE, value |-> Undefined],
     rets       |-> [i \in Idx |-> Absent]]

\* the data bag {}: the keys a body or a test writes, each absent at first
DataKeys == {"k"}
EmptyBag == [k \in DataKeys |-> Absent]

\* a state object that has not been through reset() yet
NoState ==
    [defaultRet |-> [has |-> FALSE, value |-> Undefined],
     rets       |-> [i \in Idx |-> Absent],
     calls      |-> <<>>,
     data       |-> EmptyBag]

\* builder.ret(value, ...rest), lines 40-47; rest is <<>> or <<index>>
BuilderRetOp(opts, value, rest) ==
    IF Len(rest) = 0
    THEN [opts EXCEPT !.defaultRet = [has |-> TRUE, value |-> value]]
    ELSE [opts EXCEPT !.rets[rest[1]] = value]

\* mock.ret(value, ...rest), lines 61-67
MockRet(st, value, rest) ==
    IF Len(rest) = 0
    THEN [st EXCEPT !.defaultRet = [has |-> TRUE, value |-> value]]
    ELSE [st EXCEPT !.rets[rest[1]] = value]

\* mock.throw(error, ...rest), lines 68-75
MockThrow(st, error, rest) ==
    LET wrapped == Wrapped(error)
    IN IF Len(rest) = 0
       THEN [st EXCEPT !.defaultRet = [has |-> TRUE, value |-> wrapped]]
       ELSE [st EXCEPT !.rets[rest[1]] = wrapped]

\* a reset that leaves the live registrations in place
ResetKeepsOverrides(st, opts) ==
    [st EXCEPT !.calls = <<>>, !.data = EmptyBag]

\* mock.reset(), lines 77-83
MockReset(st, opts) ==
    [defaultRet |-> opts.defaultRet,
     rets       |-> opts.rets,
     calls      |-> <<>>,
     data       |-> EmptyBag]

----------------------------------------------------------------------------
(* getFunctionBody, lines 101-130 *)

\* the new record put in front of the log
RecordFirst(calls, args) == <<args>> \o calls

\* state.calls.push(args), line 103
Record(calls, args) == Append(calls, args)

\* the call counted from 1, as a "call number"
CallNumber(calls) == Len(calls)

\* const call = state.calls.length - 1, line 104
CallIndex(calls) == Len(calls) - 1

\* the values JavaScript takes for false in a condition: undefined, null,
\* 0, false and ''
Zero == [t |-> "number", v |-> "0"]
False == [t |-> "boolean", v |-> "false"]
EmptyString == P("")
Falsy == {Undefined, Null, Zero, False, EmptyString}

\* a lookup by truthiness: rets.get(call) || defaultRet.value
ResolveTruthy(st, call) ==
    IF call \in DOMAIN st.rets /\ st.rets[call] \notin Falsy \cup {Absent}
    THEN st.rets[call]
    ELSE IF st.defaultRet.has /\ st.defaultRet.value \notin Falsy
    THEN st.defaultRet.value
    ELSE Undefined

\* index 0 doubling as the default, and a falsy value counting as none
ResolveLegacy(st, call) ==
    IF st.rets[call] \notin {Absent, Undefined} THEN st.rets[call]
    ELSE IF st.rets[0] \notin {Absent, Undefined} THEN st.rets[0]
    ELSE Undefined

\* lines 106-112: the override of this call, else the default, else undefined
Resolve(st, call) ==
    IF call \in DOMAIN st.rets /\ st.rets[call] # Absent THEN st.rets[call]
    ELSE IF st.defaultRet.has THEN st.defaultRet.value
    ELSE Undefined

\* line 114: if (ret?.[THROW_MARKER])
MustRaise(ret) == HasThrowMarker(ret)

\* the marked record itself raised, not the error in it
RaisedWrapper(ret) == ret

\* line 115: throw ret.error
Raised(ret) == IF HasThrowMarker(ret) THEN ret.v ELSE ret

\* the method the tests spy on, applied to a receiver and raw arguments:
\*   function (x) { if (arguments.length === 0) throw new Error('none');
\*                  return [this.value, x]; }
\* (reading this.value of no receiver is a TypeError)
ApplyFunc(h, fn, self, rawArgs) ==
    IF self.t # "ref" THEN [kind |-> "raise", value |-> Err("TypeError")]
    ELSE IF Len(rawArgs) = 0 THEN [kind |-> "raise", value |-> Err("none")]
    ELSE [kind |-> "return",
          value |-> Arr(<<GetKey(h[self.v].v, "value"), rawArgs[1]>>)]

\* one application of ctx.original: the receiver and the arguments it got
Applied(self, rawArgs) == [self |-> self, rawArgs |-> rawArgs]

\* a body whose result is dropped for the configured value
BodyEchoesRet(h, body, ctx) ==
    [kind |-> "return", value |-> ctx.ret, data |-> ctx.data,
     self |-> <<>>, orig |-> <<>>, args |-> ctx.args]

\* the Args-Record after the "mark" body wrote on it
Mark(args) ==
    IF args.t = "arr"
    THEN Arr(IF args.v = <<>> THEN <<P("marked")>>
             ELSE [args.v EXCEPT ![1] = P("marked")])
    ELSE IF args.t = "obj" THEN Obj(SetKey(args.v, "x", P("marked")))
    ELSE args

\* options.body(ctx), lines 118-126: what the body delivers, what it leaves in
\* ctx.data, the keys it writes on ctx.self, its applications of
\* ctx.original and what it leaves in ctx.args
RunBody(h, body, ctx) ==
    LET quiet == [data |-> ctx.data, self |-> <<>>, orig |-> <<>>,
                  args |-> ctx.args]
    IN CASE body = "store"  -> [quiet EXCEPT !.data = [ctx.data EXCEPT !["k"] = P("d")]]
                                  @@ [kind |-> "return", value |-> ctx.ret]
         [] body = "raise"  -> quiet @@ [kind |-> "raise", value |-> Err("body")]
         [] body = "attach" ->
               IF ctx.self \in {Undefined, Null}
               THEN quiet @@ [kind |-> "raise", value |-> Err("TypeError")]
               ELSE [quiet EXCEPT !.self = <<Entry("extra", P("attached"))>>]
                       @@ [kind |-> "return", value |-> ctx.ret]
         [] body \in {"again", "nest"}
                            -> quiet @@ [kind |-> "return", value |-> ctx.ret]
         [] body = "mark"   -> [quiet EXCEPT !.args = Mark(ctx.args)]
                                  @@ [kind |-> "return", value |-> Arr(ctx.rawArgs)]
         [] body = "fixed"  -> quiet @@ [kind |-> "return", value |-> P("body")]
         [] body = "read"   -> quiet @@ [kind |-> "return",
                                         value |-> IF ctx.data["k"] = Absent
                                                   THEN Undefined ELSE ctx.data["k"]]
         [] body = "spy"    ->
               IF ctx.ret # Undefined
               THEN quiet @@ [kind |-> "return", value |-> ctx.ret]
               ELSE [quiet EXCEPT !.orig = <<Applied(ctx.self, ctx.rawArgs)>>]
                       @@ ApplyFunc(h, ctx.original, ctx.self, ctx.rawArgs)
         [] OTHER           -> quiet @@ [kind |-> "return", value |-> Undefined]

\* the receiver of the call dropped: the object the mock was built on, only
SelfIsOwner(owner, parent) == owner

\* the receiver of the call, whatever the mock was built on
SelfIsReceiver(owner, parent) == parent

\* ctx.self: state.parent || parent, line 119.  state.parent is the object
\* build(parent, key) was given (line 49), undefined for a mock built alone;
\* parent is the receiver of the call.
Self(owner, parent) == IF owner # Undefined THEN owner ELSE parent

\* a body handed a copy of the recorded call
BodyGetsCopy(st1, ctx, b) ==
    [state |-> [st1 EXCEPT !.data = b.data],
     call |-> ctx.call, kind |-> b.kind, value |-> b.value,
     bodyRan |-> TRUE, ctxCall |-> ctx.call, ctxRet |-> ctx.ret,
     ctxSelf |-> ctx.self, self |-> b.self, orig |-> b.orig]

\* lines 118-126: the invocation whose body, handed ctx, delivered b.
\* ctx.args is the object line 103 pushed on state.calls (line 122), so what
\* the body left in it is what the log holds
WithBody(st1, ctx, b) ==
    [state |-> [st1 EXCEPT !.data = b.data,
                           !.calls = IF @ = <<>> THEN @
                                     ELSE [@ EXCEPT ![Len(@)] = b.args]],
     call |-> ctx.call, kind |-> b.kind, value |-> b.value,
     bodyRan |-> TRUE, ctxCall |-> ctx.call, ctxRet |-> ctx.ret,
     ctxSelf |-> ctx.self, self |-> b.self, orig |-> b.orig]

\* One invocation on receiver parent of a mock built on owner.  The result
\* holds the state object afterwards and what the caller and the body saw:
\* kind/value (returned or raised), the index used for the lookup, whether
\* the body ran and the ctx.call, ctx.ret and ctx.self it got, the writes the
\* body made on ctx.self and its applications of ctx.original.
getFunctionBody(parent, owner, h, st, opts, rawArgs) ==
    LET args  == deepClone(h, getFunctionArgs(rawArgs, opts))
        calls == Record(st.calls, args)
        call  == CallIndex(calls)
        ret   == Resolve(st, call)
        st1   == [st EXCEPT !.calls = calls]
        ctx   == [self |-> Self(owner, parent),
                  call |-> call, args |-> args, rawArgs |-> rawArgs,
                  ret |-> ret, data |-> st.data, original |-> opts.original]
        noCtx == [bodyRan |-> FALSE, ctxCall |-> -1, ctxRet |-> Undefined,
                  ctxSelf |-> Absent, self |-> <<>>, orig |-> <<>>]
    IN IF NeverEnds(h, getFunctionArgs(rawArgs, opts), {})
       THEN \* line 102 raises before line 103 is reached
            [state |-> st, call |-> -1, kind |-> "raise",
             value |-> Err("RangeError")] @@ noCtx
       ELSE IF MustRaise(ret)
       THEN [state |-> st1, call |-> call, kind |-> "raise",
             value |-> Raised(ret)] @@ noCtx
       ELSE IF opts.body # "none"
       THEN WithBody(st1, ctx, RunBody(h, opts.body, ctx))
       ELSE [state |-> st1, call |-> call, kind |-> "return",
             value |-> ret] @@ noCtx

\* a plain function handing out a promise of what it returned
PromiseOfResult(parent, owner, h, st, opts, rawArgs) ==
    LET r == getFunctionBody(parent, owner, h, st, opts, rawArgs)
    IN IF opts.async /\ r.kind = "return" THEN [r EXCEPT !.kind = "fulfil"] ELSE r

\* createFunction, lines 89-99: what a call of the mock delivers.  A mock
\* built with async() is an async function: the call delivers a promise,
\* fulfilled with what the function returns and rejected with what it raises.
createFunction(parent, owner, h, st, opts, rawArgs) ==
    LET r == getFunctionBody(parent, owner, h, st, opts, rawArgs)
    IN IF opts.async
       THEN [r EXCEPT !.kind = IF @ = "raise" THEN "reject" ELSE "fulfil"]
       ELSE r

\* mock.data, as the mock's reset() left it, is state.data itself (line 82);
\* Unset is the property before wireFunction ran.  A data property that is
\* not state.data holds a bag of its own.
Aliased == [same |-> TRUE, bag |-> [k \in DataKeys |-> Absent]]
Detached(bag) == [same |-> FALSE, bag |-> bag]
Unset == Detached([k \in DataKeys |-> Absent])

\* a reset that gives state a new bag and leaves mock.data on the old one
MockDataKept(md, st) == IF md.same THEN Detached(st.data) ELSE md

\* mock.data = state.data, line 82, after state.data = {}
MockDataReset(md, st) == Aliased

\* mock.data[k]
MockDataGet(md, st, k) == IF md.same THEN st.data[k] ELSE md.bag[k]

----------------------------------------------------------------------------
(* The life of one function mock: Spec *)

\* values a test registers with ret(), and raises with throw()
RetVals == {Undefined, P("a"), Err("e")}
ThrowVals == {Err("e"), P("a")}
BuilderVals == {P("base")}

\* ...rest of ret(value, ...rest) and throw(error, ...rest)
Rests == {<<>>} \cup {<<i>> : i \in Idx}

\* raw arguments of the invocations
ArgChoices == {<<>>, <<P("x")>>}

\* history of registrations, kept apart from the program's own maps: per slot
\* (the default and each index) nothing, a ret() value or a throw() value
NoReg == [kind |-> "none", value |-> Undefined]
RegRet(value) == [kind |-> "ret", value |-> value]
RegThrow(error) == [kind |-> "throw", value |-> error]
\* and per slot (-1 for the default) whether the test called onRet() for it
NoRegs == [dflt |-> NoReg, idx |-> [i \in Idx |-> NoReg],
           handlers |-> [i \in {-1} \cup Idx |-> FALSE]]
Register(r, rest, what) ==
    IF Len(rest) = 0 THEN [r EXCEPT !.dflt = what]
    ELSE [r EXCEPT !.idx[rest[1]] = what]

\* history of a class mock since build or its last reset: the constructions
\* completed, and per slot the default registered on method with ret(), the
\* value written to count, the value written into the array of items, and
\* whether the slot was configured before its instance was constructed
NoCfg ==
    [made  |-> 0,
     slots |-> [i \in 0 .. (MaxInst - 1) |->
                  [ret |-> NoReg, count |-> Absent, items |-> Absent,
                   pre |-> FALSE]]]

\* last: the operation, what an invocation delivered (call, kind, value,
\* bodyRan, ctxCall, ctxRet, ctxSelf, the applications of ctx.original), the
\* receiver it was called on, and what a reset found before it cleared it
\* (the length of the log, a written data bag, live registrations or added
\* keys in force, the added properties), and the mock a reset was called on
NoBefore == [calls |-> 0, data |-> FALSE, live |-> FALSE, added |-> <<>>]
NoLast ==
    [call |-> -1, kind |-> "none", value |-> Undefined,
     bodyRan |-> FALSE, ctxCall |-> -1, ctxRet |-> Undefined,
     ctxSelf |-> Absent, orig |-> <<>>, on |-> Absent,
     before |-> NoBefore, target |-> <<>>]
Did(op) == [op |-> op] @@ NoLast

\* what a call delivered, as the latest operation
Delivered(op, r) ==
    [op |-> op, call |-> r.call, kind |-> r.kind, value |-> r.value,
     bodyRan |-> r.bodyRan, ctxCall |-> r.ctxCall, ctxRet |-> r.ctxRet,
     ctxSelf |-> r.ctxSelf, orig |-> r.orig, on |-> Absent,
     before |-> NoBefore, target |-> <<>>]

\* ctx.self[k] = x for each write of a body, when ctx.self is one of the
\* caller's objects
RECURSIVE HeapWrites(_, _, _)
HeapWrites(h, self, writes) ==
    IF writes = <<>> \/ self.t # "ref" THEN h
    ELSE HeapWrites([h EXCEPT ![self.v].v = SetKey(@, Head(writes).k, Head(writes).x)],
                    self, Tail(writes))

Init ==
    /\ options \in {NewOptions(b) : b \in Bodies}
    /\ built = FALSE
    /\ state = NoState
    /\ mockData = Unset
    /\ last = Did("new")
    /\ reg = NoRegs
    /\ regB = NoRegs
    /\ inputs = <<>>
    /\ seen = <<>>
    /\ heap = InitHeap
    /\ object = NoMock
    /\ class = NoMock
    /\ insts = {}
    /\ cfg = NoCfg
    /\ pending = <<>>

\* builder.ret(value) or builder.ret(value, index), before build()
BuilderRet(value, rest) ==
    /\ ~built
    /\ options' = BuilderRetOp(options, value, rest)
    /\ last' = Did("builderRet")
    /\ regB' = Register(regB, rest, RegRet(value))
    /\ reg' = Register(reg, rest, RegRet(value))
    /\ UNCHANGED <<built, state, mockData, inputs, seen, heap>>
    /\ UNCHANGED composite

\* builder.build(), lines 48-56: wireFunction ends with mock.reset()
Build ==
    /\ ~built
    /\ built' = TRUE
    /\ state' = MockReset(state, options)
    /\ mockData' = MockDataReset(mockData, state)
    /\ last' = Did("build")
    /\ UNCHANGED <<options, reg, regB, inputs, seen, heap>>
    /\ UNCHANGED composite

\* mock.ret(value) or mock.ret(value, index)
Ret(value, rest) ==
    /\ built
    /\ state' = MockRet(state, value, rest)
    /\ last' = Did("ret")
    /\ reg' = Register(reg, rest, RegRet(value))
    /\ UNCHANGED <<options, built, mockData, regB, inputs, seen, heap>>
    /\ UNCHANGED composite

\* mock.throw(error) or mock.throw(error, index)
Throw(error, rest) ==
    /\ built
    /\ state' = MockThrow(state, error, rest)
    /\ last' = Did("throw")
    /\ reg' = Register(reg, rest, RegThrow(error))
    /\ UNCHANGED <<options, built, mockData, regB, inputs, seen, heap>>
    /\ UNCHANGED composite

\* mock.call(parent, ...rawArgs): a call of the mock on receiver parent
InvokeOn(parent, rawArgs) ==
    /\ built
    /\ Len(inputs) < MaxCalls
    /\ LET r == createFunction(parent, Undefined, heap, state, options, rawArgs)
       IN /\ state' = r.state
          /\ heap' = HeapWrites(heap, r.ctxSelf, r.self)
          /\ last' = [Delivered("invoke", r) EXCEPT !.on = parent]
    /\ inputs' = Append(inputs, rawArgs)
    /\ seen' = IF NeverEnds(heap, getFunctionArgs(rawArgs, options), {}) THEN seen
               ELSE Append(seen, View(heap, getFunctionArgs(rawArgs, options)))
    /\ UNCHANGED <<options, built, mockData, reg, regB>>
    /\ UNCHANGED composite

\* mock(...rawArgs): a plain call, with no receiver
Invoke(rawArgs) == InvokeOn(Undefined, rawArgs)

\* mock.reset()
Reset ==
    /\ built
    /\ state' = MockReset(state, options)
    /\ last' = [Did("reset") EXCEPT
                    !.before = [calls |-> Len(state.calls),
                                data |-> state.data # EmptyBag,
                                live |-> reg # regB,
                                added |-> <<>>],
                    !.target = <<"mock">>]
    /\ mockData' = MockDataReset(mockData, state)
    /\ reg' = regB
    /\ inputs' = <<>>
    /\ seen' = <<>>
    /\ UNCHANGED <<options, built, regB, heap>>
    /\ UNCHANGED composite

Next ==
    \/ \E value \in BuilderVals, rest \in Rests : BuilderRet(value, rest)
    \/ Build
    \/ \E value \in RetVals, rest \in Rests : Ret(value, rest)
    \/ \E error \in ThrowVals, rest \in Rests : Throw(error, rest)
    \/ \E rawArgs \in ArgChoices : Invoke(rawArgs)
    \/ Reset

Spec == Init /\ [][Next]_vars

----------------------------------------------------------------------------
(* Claims about the function mock, checked under Spec *)

\* the index of the latest invocation, counted by the caller from 0
ThisCall == Len(inputs) - 1

\* what the registrations in r promise for call k: the entry of index k,
\* else the default entry, else a plain undefined
Registered(r, k) ==
    IF k \in Idx /\ r.idx[k].kind # "none" THEN r.idx[k]
    ELSE IF r.dflt.kind # "none" THEN r.dflt
    ELSE RegRet(Undefined)

NothingRegistered(r, k) ==
    /\ k \in Idx => r.idx[k].kind = "none"
    /\ r.dflt.kind = "none"

\* the latest invocation got outcome value x: the body, when it ran, was
\* handed x as ctx.ret, and otherwise x is what the caller got
Yielded(x) ==
    IF last.bodyRan THEN last.ctxRet = x ELSE last.value = x

\* entry k of the log is the copy of the raw arguments of invocation k
Recorded(k) == At(state.calls, k) = Arr(inputs[k + 1])

\* C1: the invocation with call index k yields the override registered for
\* exactly index k if there is one, otherwise the registered default,
\* otherwise undefined, which is delivered as a value and not raised.
C1_OutcomeResolution ==
    last.op = "invoke" =>
        /\ Yielded(Registered(reg, ThisCall).value)
        /\ (NothingRegistered(reg, ThisCall) /\ options.body = "none")
              => (last.kind = "return" /\ last.value = Undefined)

\* the second invocation has no override of its own, index 0 has one, and
\* the different default is what the second invocation yields
C1_Witness ==
    /\ last.op = "invoke" /\ ThisCall = 1
    /\ reg.idx[0] = RegRet(P("a")) /\ reg.idx[1].kind = "none"
    /\ reg.dflt = RegRet(P("base"))
    /\ options.body = "none" /\ last.value = P("base")

C3_CallLog ==
    built =>
        /\ Len(state.calls) = Len(inputs)
        /\ \A k \in 0 .. (Len(inputs) - 1) : Recorded(k)
        /\ At(state.calls, Len(inputs)) = Undefined

\* two different invocations, the first raised by a configured throw and the
\* second by the body, with a registration made after them
C3_Witness ==
    /\ Len(state.calls) = 2 /\ inputs[1] # inputs[2]
    /\ options.body = "raise"
    /\ reg.idx[0].kind = "throw" /\ reg.idx[1].kind = "none"
    /\ reg.dflt.kind = "none"
    /\ last.op = "invoke" /\ last.kind = "raise" /\ last.bodyRan

\* C4: an invocation whose outcome was registered with throw() raises the
\* registered value as it is, after the call was recorded and without running
\* the body; an invocation whose outcome is not such a registration is not
\* made to raise by a throw() registered for another index.
C4_ConfiguredThrow ==
    last.op = "invoke" =>
        LET e == Registered(reg, ThisCall)
        IN /\ e.kind = "throw" =>
                /\ last.kind = "raise" /\ last.value = e.value
                /\ ~last.bodyRan
                /\ Recorded(ThisCall)
           /\ (e.kind # "throw" /\ e.value.t # "error"
                 /\ options.body # "raise") => last.kind = "return"

\* a string thrown for index 1 only, by a mock that has a body and a default
C4_Witness ==
    /\ last.op = "invoke" /\ ThisCall = 1
    /\ reg.idx[1] = RegThrow(P("a")) /\ reg.idx[0].kind = "none"
    /\ reg.dflt.kind = "ret"
    /\ options.body = "store"
    /\ last.kind = "raise" /\ last.value = P("a")

\* C5: an Error registered with ret() is raised by the invocation that
\* resolves to it, before the body runs, and the call is recorded.
C5_ErrorReturnRaises ==
    last.op = "invoke" =>
        LET e == Registered(reg, ThisCall)
        IN (e.kind = "ret" /\ e.value.t = "error") =>
                /\ last.kind = "raise" /\ last.value = e.value
                /\ ~last.bodyRan
                /\ Recorded(ThisCall)

\* the configuration a builder with registrations r hands to the mock
FromBuilder(r) ==
    [defaultRet |-> IF r.dflt.kind = "none"
                    THEN [has |-> FALSE, value |-> Undefined]
                    ELSE [has |-> TRUE, value |-> r.dflt.value],
     rets |-> [i \in Idx |-> IF r.idx[i].kind = "none" THEN Absent
                             ELSE r.idx[i].value]]

\* the state of a mock just built from the builder's options
FreshlyBuilt == MockReset(NoState, options)

\* C6: after reset() the log and the data bag are empty, the default and the
\* per-index outcomes are those registered on the builder, and the mock is in
\* the state of a freshly built one, so it yields what a fresh mock yields.
C6_ResetRestores ==
    last.op = "reset" =>
        /\ state.calls = <<>>
        /\ state.data = EmptyBag
        /\ state.defaultRet = FromBuilder(regB).defaultRet
        /\ state.rets = FromBuilder(regB).rets
        /\ state = FreshlyBuilt

\* a reset that dropped two calls, a written data bag and live registrations
\* of a mock whose builder had registered outcomes
C6_Witness ==
    /\ last.op = "reset"
    /\ last.before = [NoBefore EXCEPT !.calls = 2, !.data = TRUE, !.live = TRUE]
    /\ regB.dflt.kind = "ret" /\ regB.idx[1].kind = "ret"

----------------------------------------------------------------------------
(* The argument processor applied to one invocation: SpecArgs *)

\* builder.args(...): no names, 'x', and names with a declared default
ArgDecls ==
    {<<>>,
     <<Name("x")>>,
     <<Name("x"), NameDefault("y", P("dflt"))>>,
     <<Name("x"), NameDefault("y", P("dflt")), Name("z")>>}

\* builder.pick(...): no selection, one index, several in either order, and
\* an index no declared name has
Selects == {<<>>, <<0>>, <<1>>, <<0, 2>>, <<2, 0>>, <<1, 5>>}

\* the positional inputs: absent, null, a string, a plain object
ArgVals == {Undefined, Null, P("p"), Ref("o1")}

RECURSIVE SeqsUpTo(_, _)
SeqsUpTo(S, n) ==
    IF n = 0 THEN {<<>>}
    ELSE LET shorter == SeqsUpTo(S, n - 1)
         IN shorter \cup {Append(q, x) : q \in shorter, x \in S}

InitArgs ==
    /\ options \in {[NewOptions("none") EXCEPT !.args = a, !.select = sel] :
                      a \in ArgDecls, sel \in Selects}
    /\ built = TRUE
    /\ state = MockReset(NoState, options)
    /\ mockData = Aliased
    /\ last = Did("build")
    /\ reg = NoRegs
    /\ regB = NoRegs
    /\ inputs = <<>>
    /\ seen = <<>>
    /\ heap = InitHeap
    /\ object = NoMock
    /\ class = NoMock
    /\ insts = {}
    /\ cfg = NoCfg
    /\ pending = <<>>

\* the first invocation of the mock, with raw arguments rawArgs
Apply(rawArgs) ==
    /\ inputs = <<>>
    /\ Invoke(rawArgs)

NextArgs ==
    \/ \E rawArgs \in SeqsUpTo(ArgVals, MaxArgs) : Apply(rawArgs)
    \/ Reset

SpecArgs == InitArgs /\ [][NextArgs]_vars

\* the Args-Record of the invocation, as its reader sees it
ArgsRecord == View(heap, At(state.calls, 0))

\* the declared default of parameter j (1-based), undefined when none
DeclaredDefault(j) ==
    IF options.args[j].str THEN Undefined ELSE options.args[j].dflt

\* C9: with names declared and no selection, the Args-Record maps each
\* declared name, in declaration order, to the input at its position when
\* that input is not undefined and to the declared default otherwise; inputs
\* beyond the declared names are not in it.
C9_NamedArgs ==
    (last.op = "invoke" /\ Len(options.args) # 0 /\ Len(options.select) = 0)
    => ArgsRecord =
          Obj([j \in 1 .. Len(options.args) |->
                 Entry(options.args[j].name,
                       IF j <= Len(inputs[1]) /\ inputs[1][j] # Undefined
                       THEN View(heap, inputs[1][j])
                       ELSE DeclaredDefault(j))])

\* ('x', { y: 'dflt' }) called with (obj, null, 'p'): y is null, not its
\* default, and the third input is not recorded
C9_Witness ==
    /\ last.op = "invoke"
    /\ options.args = <<Name("x"), NameDefault("y", P("dflt"))>>
    /\ options.select = <<>>
    /\ inputs[1] = <<Ref("o1"), Null, P("p")>>
    /\ ArgsRecord = Obj(<<Entry("x", View(heap, Ref("o1"))), Entry("y", Null)>>)

\* C10: with exactly one selection index k, with or without declared names,
\* the Args-Record is the input at position k itself, and undefined when
\* fewer inputs were passed.
C10_SingleExtraction ==
    (last.op = "invoke" /\ Len(options.select) = 1)
    => ArgsRecord =
          IF options.select[1] < Len(inputs[1])
          THEN View(heap, inputs[1][options.select[1] + 1])
          ELSE Undefined

\* names declared and pick(1): ('p', obj, 'p') records obj alone
C10_Witness ==
    /\ last.op = "invoke"
    /\ Len(options.args) = 3 /\ options.select = <<1>>
    /\ inputs[1] = <<P("p"), Ref("o1"), P("p")>>
    /\ ArgsRecord = Obj(<<Entry("nested", Obj(<<Entry("value", P("original"))>>))>>)

\* the declared parameters (1-based positions) a selection list keeps, in
\* declaration order
Kept ==
    SelectSeq([j \in 1 .. Len(options.args) |-> j],
              LAMBDA j : \E k \in DOMAIN options.select : options.select[k] = j - 1)

\* C11: with names declared and a selection list of two or more indices, the
\* Args-Record holds exactly the declared parameters whose position is in the
\* list, in declaration order whatever the order of the list, each with its
\* input or its declared default; a selected index without a declared name
\* adds nothing.
C11_SelectionFilter ==
    (last.op = "invoke" /\ Len(options.args) # 0 /\ Len(options.select) >= 2)
    => ArgsRecord =
          Obj([n \in 1 .. Len(Kept) |->
                 Entry(options.args[Kept[n]].name,
                       IF Kept[n] <= Len(inputs[1]) /\ inputs[1][Kept[n]] # Undefined
                       THEN View(heap, inputs[1][Kept[n]])
                       ELSE DeclaredDefault(Kept[n]))])

\* ('x', { y: 'dflt' }, 'z') with pick(2, 0) called with ('p', null): x comes
\* before z, y is left out and z, which has no input, is undefined
C11_Witness ==
    /\ last.op = "invoke"
    /\ Len(options.args) = 3 /\ options.select = <<2, 0>>
    /\ inputs[1] = <<P("p"), Null>>
    /\ ArgsRecord = Obj(<<Entry("x", P("p")), Entry("z", Undefined)>>)

----------------------------------------------------------------------------
(* Recorded calls and later mutation of the arguments: SpecClone *)

\* the three shapes of an Args-Record: a sequence, a mapping, one input
CloneConfigs ==
    {[NewOptions("none") EXCEPT !.args = a, !.select = sel] :
        <<a, sel>> \in {<< <<>>, <<>> >>,
                       << <<Name("x"), NameDefault("y", P("dflt"))>>, <<>> >>,
                       << <<>>, <<0>> >>}}

\* mock(o1), mock(a1, 'p'), mock(c1)
CloneArgs == {<<Ref("o1")>>, <<Ref("a1"), P("p")>>, <<Ref("c1")>>}

\* array[i] = x on the elements of an array
SetElem(elems, i, x) == [elems EXCEPT ![i + 1] = x]

InitClone ==
    /\ options \in CloneConfigs
    /\ built = TRUE
    /\ state = MockReset(NoState, options)
    /\ mockData = Aliased
    /\ last = Did("build")
    /\ reg = NoRegs
    /\ regB = NoRegs
    /\ inputs = <<>>
    /\ seen = <<>>
    /\ heap = InitHeap
    /\ object = NoMock
    /\ class = NoMock
    /\ insts = {}
    /\ cfg = NoCfg
    /\ pending = <<>>

\* the test writes r[k] = x on one of its plain objects
MutateObject(r, k, x) ==
    /\ heap[r].t = "obj"
    /\ heap' = [heap EXCEPT ![r].v = SetKey(@, k, x)]
    /\ last' = Did("mutate")
    /\ UNCHANGED <<options, built, state, mockData, reg, regB, inputs, seen>>
    /\ UNCHANGED composite

\* the test writes r[i] = x on one of its arrays
MutateArray(r, i, x) ==
    /\ heap[r].t = "arr"
    /\ i < Len(heap[r].v)
    /\ heap' = [heap EXCEPT ![r].v = SetElem(@, i, x)]
    /\ last' = Did("mutate")
    /\ UNCHANGED <<options, built, state, mockData, reg, regB, inputs, seen>>
    /\ UNCHANGED composite

NextClone ==
    \/ \E rawArgs \in CloneArgs : Invoke(rawArgs)
    \/ MutateObject("o2", "value", P("mutated"))
    \/ MutateObject("o1", "added", P("new"))
    \/ MutateArray("a1", 1, P("changed"))
    \/ Reset

SpecClone == InitClone /\ [][NextClone]_vars

\* C8: every entry of the call log reads, now, as the processed inputs read
\* when its invocation happened, whatever was written since to the plain
\* objects and arrays that were passed, at any depth.
C8_RecordedCopy ==
    /\ Len(state.calls) = Len(seen)
    /\ \A i \in 0 .. (Len(seen) - 1) :
          View(heap, At(state.calls, i)) = seen[i + 1]

\* mock(o1) then mock(a1, 'p'), then o1.added = 'new', o2.value = 'mutated'
\* and a1[1] = 'changed': o2 is nested in o1 and in a1
C8_Witness ==
    /\ Len(options.args) = 2
    /\ inputs = << <<Ref("o1")>>, <<Ref("a1"), P("p")>> >>
    /\ View(heap, Ref("o2")) = Obj(<<Entry("value", P("mutated"))>>)
    /\ HasKey(heap["o1"].v, "added")
    /\ heap["a1"].v[2] = P("changed")
    /\ At(state.calls, 0) =
          Obj(<<Entry("x", Obj(<<Entry("nested",
                                  Obj(<<Entry("value", P("original"))>>))>>)),
                Entry("y", P("dflt"))>>)
    /\ At(state.calls, 1) =
          Obj(<<Entry("x", Arr(<<Obj(<<Entry("value", P("original"))>>),
                                 P("x")>>)),
                Entry("y", P("p"))>>)

----------------------------------------------------------------------------
(* Arguments that contain themselves: SpecCycle *)

\* mocky.function(), .args('x', { y: 'dflt' }), .pick(1) and .async()
CycleConfigs ==
    {[NewOptions("none") EXCEPT !.args = a, !.select = sel, !.async = as] :
        <<a, sel, as>> \in {<< <<>>, <<>>, FALSE >>,
                            << <<Name("x"), NameDefault("y", P("dflt"))>>, <<>>, FALSE >>,
                            << <<>>, <<1>>, FALSE >>,
                            << <<>>, <<>>, TRUE >>}}

\* mock(o1), mock(a1), mock('p', o2), mock(c1)
CycleArgs == {<<Ref("o1")>>, <<Ref("a1")>>, <<P("p"), Ref("o2")>>, <<Ref("c1")>>}

InitCycle ==
    /\ options \in CycleConfigs
    /\ built = TRUE
    /\ state = MockReset(NoState, options)
    /\ mockData = Aliased
    /\ last = Did("build")
    /\ reg = NoRegs
    /\ regB = NoRegs
    /\ inputs = <<>>
    /\ seen = <<>>
    /\ heap = InitHeap
    /\ object = NoMock
    /\ class = NoMock
    /\ insts = {}
    /\ cfg = NoCfg
    /\ pending = <<>>

\* the test writes o2.back = o1 (o1.nested is o2) and a1[1] = a1, and takes
\* o2.back away again
NextCycle ==
    \/ \E rawArgs \in CycleArgs : InvokeOn(Undefined, rawArgs)
    \/ \E x \in {Ref("o1"), P("none")} : MutateObject("o2", "back", x)
    \/ MutateArray("a1", 1, Ref("a1"))
    \/ Reset

SpecCycle == InitCycle /\ [][NextCycle]_vars

\* C31: an invocation of a function mock, whatever its configuration and
\* its arguments, plain objects and arrays that contain themselves
\* included, has appended exactly one entry to the call log and delivered
\* a value or a raised condition.
C31_RunsToCompletion ==
    last.op = "invoke"
    => /\ Len(state.calls) = Len(inputs)
       /\ last.kind \in {"return", "raise", "fulfil", "reject"}

----------------------------------------------------------------------------
(* A body that writes on ctx.args: SpecMark *)

\* mocky.function(mark), with .args('x', { y: 'dflt' }), .pick(1) or .async()
MarkConfigs ==
    {[NewOptions("mark") EXCEPT !.args = a, !.select = sel, !.async = as] :
        <<a, sel, as>> \in {<< <<>>, <<>>, FALSE >>,
                            << <<Name("x"), NameDefault("y", P("dflt"))>>, <<>>, FALSE >>,
                            << <<>>, <<1>>, FALSE >>,
                            << <<>>, <<>>, TRUE >>}}

\* mock(), mock('p'), mock(o2), mock('p', o2)
MarkArgs == {<<>>, <<P("p")>>, <<Ref("o2")>>, <<P("p"), Ref("o2")>>}

InitMark ==
    /\ options \in MarkConfigs
    /\ built = TRUE
    /\ state = MockReset(NoState, options)
    /\ mockData = Aliased
    /\ last = Did("build")
    /\ reg = NoRegs
    /\ regB = NoRegs
    /\ inputs = <<>>
    /\ seen = <<>>
    /\ heap = InitHeap
    /\ object = NoMock
    /\ class = NoMock
    /\ insts = {}
    /\ cfg = NoCfg
    /\ pending = <<>>

\* calls, the test's write o2.value = 'changed' between them, mock.reset()
NextMark ==
    \/ \E rawArgs \in MarkArgs : InvokeOn(Undefined, rawArgs)
    \/ MutateObject("o2", "value", P("changed"))
    \/ Reset

SpecMark == InitMark /\ [][NextMark]_vars

\* the Args-Record of the latest call, as line 102 made it
Cloned == deepClone(heap, getFunctionArgs(inputs[Len(inputs)], options))

\* C39: the Args-Record a body gets as ctx.args is the record stored at
\* calls[ctx.call]: after a body that writes on ctx.args, the log entry of
\* the call shows the write.  ctx.rawArgs is the caller's inputs, the
\* caller's own objects and not copies of them, and the write on ctx.args
\* leaves the caller's objects as they were.
C39_OneRecord ==
    /\ []((last.op = "invoke" /\ last.bodyRan)
          => /\ At(state.calls, last.ctxCall) = Mark(Cloned)
             /\ last.value = Arr(inputs[Len(inputs)]))
    /\ [][last'.op = "invoke" => heap' = heap]_vars

\* mock('p', o2) on a mock built with args('x', { y: 'dflt' }): the log
\* holds { x: 'marked', y: { value: 'original' } } and the body returned
\* ['p', o2], o2 being the caller's object
C39_Witness ==
    /\ last.op = "invoke" /\ last.bodyRan /\ last.kind = "return"
    /\ options.args # <<>>
    /\ At(state.calls, last.ctxCall) =
          Obj(<<Entry("x", P("marked")),
                Entry("y", Obj(<<Entry("value", P("original"))>>))>>)
    /\ last.value = Arr(<<P("p"), Ref("o2")>>)
    /\ heap = InitHeap

----------------------------------------------------------------------------
(* Sync and async mocks, custom bodies and the data bag: SpecDelivery *)

\* mocky.function(body).build() and mocky.function(body).async().build()
DeliveryBodies == {"none", "store", "raise", "fixed", "read"}

InitDelivery ==
    /\ options \in {[NewOptions(b) EXCEPT !.async = a] :
                      b \in DeliveryBodies, a \in BOOLEAN}
    /\ built = TRUE
    /\ state = MockReset(NoState, options)
    /\ mockData = Aliased
    /\ last = Did("build")
    /\ reg = NoRegs
    /\ regB = NoRegs
    /\ inputs = <<>>
    /\ seen = <<>>
    /\ heap = InitHeap
    /\ object = NoMock
    /\ class = NoMock
    /\ insts = {}
    /\ cfg = NoCfg
    /\ pending = <<>>

\* mock.data.k = x: the test writes a key of the bag mock.data refers to
DataWrite(k, x) ==
    /\ built
    /\ IF mockData.same
       THEN /\ state' = [state EXCEPT !.data[k] = x]
            /\ UNCHANGED mockData
       ELSE /\ mockData' = [mockData EXCEPT !.bag[k] = x]
            /\ UNCHANGED state
    /\ last' = [Did("dataWrite") EXCEPT !.value = x]
    /\ UNCHANGED <<options, built, reg, regB, inputs, seen, heap>>
    /\ UNCHANGED composite

\* mock.onRet(handler, ...rest): wireFunction (lines 60-87) gives the mock
\* ret, throw, calls, reset and data; onRet is not a property of the mock, so
\* the call raises a TypeError and nothing is registered
OnRet(rest) ==
    /\ built
    /\ last' = [Did("onRet") EXCEPT !.kind = "raise", !.value = Err("TypeError")]
    /\ reg' = [reg EXCEPT !.handlers[IF Len(rest) = 0 THEN -1 ELSE rest[1]] = TRUE]
    /\ UNCHANGED <<options, built, state, mockData, regB, inputs, seen, heap>>
    /\ UNCHANGED composite

NextDelivery ==
    \/ \E rest \in {<<>>, <<1>>} : Ret(P("a"), rest)
    \/ \E rest \in {<<>>, <<0>>} : Throw(Err("e"), rest)
    \/ \E rawArgs \in ArgChoices : Invoke(rawArgs)
    \/ DataWrite("k", P("w"))
    \/ \E rest \in {<<>>, <<1>>} : OnRet(rest)
    \/ Reset

SpecDelivery == InitDelivery /\ [][NextDelivery]_vars

\* how an async mock hands over what a sync mock returns or raises
Settled(kind) == IF kind = "raise" THEN "reject" ELSE "fulfil"

\* the same mock built without async()
SyncTwin == [options EXCEPT !.async = FALSE]

\* C25: an async mock never raises to its caller: a configured throw and an
\* exception of the body reject the promise it returns; and from every state
\* the async mock and the same mock built without async() go, on the same
\* invocation or reset, to the same log, data bag and outcomes, the promise
\* being fulfilled with what the sync mock returns and rejected with what it
\* raises.
C25_AsyncDelivery ==
    options.async
    => /\ last.op = "invoke"
          => /\ last.kind \in {"fulfil", "reject"}
             /\ Registered(reg, ThisCall).kind = "throw"
                => (last.kind = "reject"
                    /\ last.value = Registered(reg, ThisCall).value)
             /\ (Registered(reg, ThisCall).kind # "throw" /\ options.body = "raise")
                => (last.kind = "reject" /\ last.value = Err("body"))
             /\ (Registered(reg, ThisCall).kind # "throw" /\ options.body = "none")
                => (last.kind = "fulfil"
                    /\ last.value = Registered(reg, ThisCall).value)
       /\ \A rawArgs \in ArgChoices :
             LET a == createFunction(Undefined, Undefined, heap, state, options, rawArgs)
                 s == createFunction(Undefined, Undefined, heap, state, SyncTwin, rawArgs)
             IN /\ a.state = s.state
                /\ a.value = s.value
                /\ s.kind \in {"return", "raise"}
                /\ a.kind = Settled(s.kind)
       /\ MockReset(state, options) = MockReset(state, SyncTwin)

\* the second invocation of an async mock with a body: the first was
\* rejected with the error thrown for index 0, this one is fulfilled with
\* the default and the body wrote the data bag
C25_Witness ==
    /\ options.async /\ options.body = "store"
    /\ last.op = "invoke" /\ ThisCall = 1
    /\ reg.idx[0] = RegThrow(Err("e")) /\ reg.dflt = RegRet(P("a"))
    /\ last.kind = "fulfil" /\ last.value = P("a")
    /\ state.data["k"] = P("d")

\* what each body of the tests returns or raises, given the ctx.ret it was
\* handed and the value of ctx.data.k
BodyOutcome(body, ret, k) ==
    CASE body = "fixed" -> [kind |-> "return", value |-> P("body")]
      [] body = "raise" -> [kind |-> "raise", value |-> Err("body")]
      [] body = "read"  -> [kind |-> "return",
                            value |-> IF k = Absent THEN Undefined ELSE k]
      [] OTHER          -> [kind |-> "return", value |-> ret]

\* C27: when the outcome resolved for an invocation is not a throw, a mock
\* with a custom body runs the body, hands it the configured value as ctx.ret
\* (undefined when nothing is configured) and delivers what the body returns
\* or raises, not the configured value; a mock with no body delivers the
\* resolved outcome.
C27_BodyResult ==
    (last.op = "invoke" /\ Registered(reg, ThisCall).kind # "throw")
    => IF options.body = "none"
       THEN /\ ~last.bodyRan
            /\ last.kind = (IF options.async THEN "fulfil" ELSE "return")
            /\ last.value = Registered(reg, ThisCall).value
       ELSE LET expected == BodyOutcome(options.body, Registered(reg, ThisCall).value,
                                        state.data["k"])
            IN /\ last.bodyRan
               /\ last.ctxRet = Registered(reg, ThisCall).value
               /\ last.ctxCall = ThisCall
               /\ last.value = expected.value
               /\ last.kind = (IF options.async THEN Settled(expected.kind)
                               ELSE expected.kind)

\* ret('a') is the default and the body returns 'body': the second
\* invocation handed 'a' to the body and returned 'body'
C27_Witness ==
    /\ last.op = "invoke" /\ ThisCall = 1
    /\ ~options.async /\ options.body = "fixed"
    /\ reg.dflt = RegRet(P("a"))
    /\ last.bodyRan /\ last.ctxRet = P("a")
    /\ last.kind = "return" /\ last.value = P("body")

\* the handler of the tests, (args) => ['computed', args], applied to an
\* Args-Record
HandlerValue(args) == Arr(<<P("computed"), args>>)

\* a handler was registered for call k, or as the default, and no literal
\* outcome is registered that call k would take
HandlerApplies(k) ==
    /\ NothingRegistered(reg, k)
    /\ reg.handlers[-1] \/ (k \in Idx /\ reg.handlers[k])

\* C28: onRet(handler) and onRet(handler, index) register a handler on the
\* live mock, and an invocation that a registered handler applies to yields
\* what the handler returns for the invocation's Args-Record.
C28_ComputedReturn ==
    /\ last.op = "onRet" => last.kind # "raise"
    /\ (last.op = "invoke" /\ HandlerApplies(ThisCall))
       => Yielded(HandlerValue(At(state.calls, ThisCall)))

----------------------------------------------------------------------------
(* createSpy, lines 327-351, and the life of one spy: SpecSpy *)

\* const obj = { value: 'v1', greet: function (x) { ... } }: the object the
\* test spies on and the key of its method
SpyObject == "o1"
SpyKey == "greet"
SpyHeap ==
    [InitHeap EXCEPT ![SpyObject] =
        Obj(<<Entry("value", P("v1")), Entry(SpyKey, Func("original"))>>)]

\* the function mock createSpy builds and installs: spyFn
SpyFn == Func("spyFn")

\* lines 334-344: the builder of a spy with no replacement, with the
\* function found at object[key] as its original
SpyOptions(h, r, key) ==
    [NewOptions("spy") EXCEPT !.original = GetKey(h[r].v, key)]

\* a restore that installs a new function bound to the object
RestoreBound(h, r, key, opts) ==
    [h EXCEPT ![r].v = SetKey(@, key, Func("bound"))]

\* a restore that puts back the method the object had before any spy
RestoreUnwinds(h, r, key, opts) ==
    [h EXCEPT ![r].v = SetKey(@, key, GetKey(SpyHeap[r].v, key))]

\* spyFn.restore(), lines 345-347: object[key] = original
SpyRestore(h, r, key, opts) ==
    [h EXCEPT ![r].v = SetKey(@, key, opts.original)]

InitSpy ==
    /\ options = NewOptions("none")
    /\ built = FALSE
    /\ state = NoState
    /\ mockData = Unset
    /\ last = Did("new")
    /\ reg = NoRegs
    /\ regB = NoRegs
    /\ inputs = <<>>
    /\ seen = <<>>
    /\ heap = SpyHeap
    /\ object = NoMock
    /\ class = NoMock
    /\ insts = {}
    /\ cfg = NoCfg
    /\ pending = <<>>

\* const spy = mocky.spy(obj, 'greet'): the mock is built with no parent
\* (line 344) and takes the place of the method (line 348)
CreateSpy ==
    /\ ~built
    /\ options' = SpyOptions(heap, SpyObject, SpyKey)
    /\ built' = TRUE
    /\ state' = MockReset(NoState, options')
    /\ mockData' = MockDataReset(mockData, state)
    /\ heap' = [heap EXCEPT ![SpyObject].v = SetKey(@, SpyKey, SpyFn)]
    /\ last' = Did("spy")
    /\ UNCHANGED <<reg, regB, inputs, seen>>
    /\ UNCHANGED composite

\* obj.greet.call(parent, ...rawArgs): the function found at the key now is
\* called, the spy's mock or the test's own method
SpyCall(parent, rawArgs) ==
    LET fn == GetKey(heap[SpyObject].v, SpyKey)
    IN IF fn = SpyFn
       THEN /\ Len(inputs) < MaxCalls
            /\ LET r == createFunction(parent, Undefined, heap, state, options, rawArgs)
               IN /\ state' = r.state
                  /\ last' = [Delivered("call", r) EXCEPT !.on = parent,
                                                          !.target = <<"spy">>]
            /\ inputs' = Append(inputs, rawArgs)
            /\ seen' = Append(seen, View(heap, getFunctionArgs(rawArgs, options)))
            /\ UNCHANGED <<options, built, mockData, reg, regB, heap>>
            /\ UNCHANGED composite
       ELSE /\ LET r == ApplyFunc(heap, fn, parent, rawArgs)
               IN last' = [Did("call") EXCEPT !.kind = r.kind, !.value = r.value,
                                              !.on = parent,
                                              !.target = <<"direct">>]
            /\ UNCHANGED <<options, built, state, mockData, reg, regB, inputs,
                           seen, heap>>
            /\ UNCHANGED composite

\* spy.restore()
Restore ==
    /\ built
    /\ heap' = SpyRestore(heap, SpyObject, SpyKey, options)
    /\ last' = [Did("restore") EXCEPT
                    !.before = [NoBefore EXCEPT
                                   !.calls = Len(state.calls),
                                   !.live = GetKey(heap[SpyObject].v, SpyKey) = SpyFn]]
    /\ UNCHANGED <<options, built, state, mockData, reg, regB, inputs, seen>>
    /\ UNCHANGED composite

\* the receivers and the raw arguments of the calls: obj.greet(...),
\* obj.greet.call(c1, ...) and a call of the function taken off the object
SpyReceivers == {Ref(SpyObject), Ref("c1"), Undefined}
SpyArgs == {<<>>, <<P("x")>>, <<Ref("o2")>>}

NextSpy ==
    \/ CreateSpy
    \/ \E parent \in SpyReceivers, rawArgs \in SpyArgs : SpyCall(parent, rawArgs)
    \/ \E value \in {Undefined, P("a")}, rest \in {<<>>, <<1>>} : Ret(value, rest)
    \/ \E rest \in {<<>>, <<0>>} : Throw(Err("e"), rest)
    \/ Restore
    \/ Reset

SpecSpy == InitSpy /\ [][NextSpy]_vars

\* the latest operation was a call of obj.greet that reached the spy
ViaSpy == last.op = "call" /\ last.target = <<"spy">>

\* what the test's own method gives for the receiver and the raw arguments
\* of the latest call
OriginalOutcome ==
    ApplyFunc(heap, GetKey(SpyHeap[SpyObject].v, SpyKey), last.on, inputs[Len(inputs)])

\* entry k of the spy's log reads as the raw arguments of call k
SpyRecorded(k) == View(heap, At(state.calls, k)) = View(heap, Arr(inputs[k + 1]))

\* C22: a call of obj.greet that reaches a spy made with no replacement,
\* when no override is registered for it, appends the raw arguments to the
\* spy's log and returns or raises what the original method returns or
\* raises for the same receiver and the same raw arguments; the original is
\* applied once, to that receiver and those arguments.
C22_SpyCallThrough ==
    (ViaSpy /\ NothingRegistered(reg, ThisCall))
    => /\ Len(state.calls) = Len(inputs)
       /\ SpyRecorded(ThisCall)
       /\ last.kind = OriginalOutcome.kind
       /\ last.value = OriginalOutcome.value
       /\ last.orig = <<Applied(last.on, inputs[Len(inputs)])>>

\* the second call, obj.greet(o2): the original read this.value of obj and
\* was handed o2 itself, while the log holds a copy of o2
C22_Witness ==
    /\ ViaSpy /\ ThisCall = 1 /\ NothingRegistered(reg, 1)
    /\ last.on = Ref(SpyObject)
    /\ inputs[2] = <<Ref("o2")>>
    /\ last.kind = "return"
    /\ last.value = Arr(<<P("v1"), Ref("o2")>>)
    /\ At(state.calls, 1) = Arr(<<Obj(<<Entry("value", P("original"))>>)>>)

\* what a registration promises the caller: ret(x) returns x, throw(e)
\* raises e
Promised(e) == [kind |-> IF e.kind = "throw" THEN "raise" ELSE "return",
                value |-> e.value]

\* C23: a call that reaches a spy made with no replacement, when an override
\* registered with ret() or throw() applies to it (for its index, or the
\* default), yields the registered outcome whatever the registered value,
\* does not apply the original, and is recorded.
C23_SpyOverride ==
    (ViaSpy /\ ~NothingRegistered(reg, ThisCall))
    => /\ last.kind = Promised(Registered(reg, ThisCall)).kind
       /\ last.value = Promised(Registered(reg, ThisCall)).value
       /\ last.orig = <<>>
       /\ SpyRecorded(ThisCall)

\* the function at obj.greet before the spy was made
BeforeSpy == GetKey(SpyHeap[SpyObject].v, SpyKey)

\* C24: after spy.restore() obj.greet is the function that was there before
\* the spy was made, itself; another restore() changes nothing; and from
\* then on a call of obj.greet leaves the spy's log and state as they were.
C24_SpyRestore ==
    /\ [](last.op = "restore"
            => /\ GetKey(heap[SpyObject].v, SpyKey) = BeforeSpy
               /\ SpyRestore(heap, SpyObject, SpyKey, options) = heap)
    /\ [][(built /\ GetKey(heap[SpyObject].v, SpyKey) # SpyFn /\ last'.op = "call")
            => (state' = state /\ last'.target = <<"direct">>
                /\ GetKey(heap'[SpyObject].v, SpyKey) = BeforeSpy)]_vars

\* after two recorded calls and a ret(), restore() and then obj.greet('x'):
\* the original answered and the log still has its two entries
C24_Witness ==
    /\ last.op = "call" /\ last.target = <<"direct">>
    /\ built /\ Len(state.calls) = 2 /\ reg.dflt = RegRet(P("a"))
    /\ last.on = Ref(SpyObject) /\ last.value = Arr(<<P("v1"), P("x")>>)
    /\ GetKey(heap[SpyObject].v, SpyKey) = BeforeSpy

----------------------------------------------------------------------------
(* Registered values that are falsy: SpecFalsy *)

\* mocky.function().build() and mocky.function(store).build()
InitFalsy ==
    /\ options \in {NewOptions("none"), NewOptions("store")}
    /\ built = TRUE
    /\ state = MockReset(NoState, options)
    /\ mockData = Aliased
    /\ last = Did("build")
    /\ reg = NoRegs
    /\ regB = NoRegs
    /\ inputs = <<>>
    /\ seen = <<>>
    /\ heap = InitHeap
    /\ object = NoMock
    /\ class = NoMock
    /\ insts = {}
    /\ cfg = NoCfg
    /\ pending = <<>>

\* mock.ret(undefined), mock.ret(0, 0), mock.ret('', 1), mock.ret('a'), ...
NextFalsy ==
    \/ \E value \in Falsy \cup {P("a")}, rest \in Rests : Ret(value, rest)
    \/ InvokeOn(Undefined, <<P("x")>>)
    \/ Reset

SpecFalsy == InitFalsy /\ [][NextFalsy]_vars

\* C34: an override registered for the index of a call is what the call
\* yields, also when its value is undefined, null, 0, false or '' and a
\* default is registered; without one a registered default is what it
\* yields, whatever its value; only a call with nothing registered for its
\* index and no default yields the plain undefined.
C34_PresenceDecides ==
    last.op = "invoke"
    => /\ (ThisCall \in Idx /\ reg.idx[ThisCall].kind = "ret")
          => Yielded(reg.idx[ThisCall].value)
       /\ ((ThisCall \in Idx => reg.idx[ThisCall].kind = "none")
             /\ reg.dflt.kind = "ret")
          => Yielded(reg.dflt.value)
       /\ NothingRegistered(reg, ThisCall) => Yielded(Undefined)
       /\ options.body = "none" => last.kind = "return"

\* with the default 'a' registered and 0 registered for index 1, the second
\* call returned 0
C34_Witness ==
    /\ last.op = "invoke" /\ ThisCall = 1 /\ options.body = "none"
    /\ reg.dflt = RegRet(P("a")) /\ reg.idx[1] = RegRet(Zero)
    /\ last.value = Zero /\ last.kind = "return"

----------------------------------------------------------------------------
(* The builder used after build(): SpecBuilder *)

\* const builder = mocky.function().args('x').ret('base').original(first);
\* const mock = builder.build(): the options as build() found them
BuildTime ==
    [BuilderRetOp(NewOptions("none"), P("base"), <<>>) EXCEPT
        !.args = <<Name("x")>>, !.original = Func("first")]

InitBuilder ==
    /\ options = BuildTime
    /\ built = TRUE
    /\ state = MockReset(NoState, options)
    /\ mockData = Aliased
    /\ last = Did("build")
    /\ reg = Register(NoRegs, <<>>, RegRet(P("base")))
    /\ regB = Register(NoRegs, <<>>, RegRet(P("base")))
    /\ inputs = <<>>
    /\ seen = <<>>
    /\ heap = InitHeap
    /\ object = NoMock
    /\ class = NoMock
    /\ insts = {}
    /\ cfg = NoCfg
    /\ pending = <<>>

\* builder.ret(value, ...rest) at any time, lines 40-47: the options object
\* it writes is the one the built mock was given (lines 50 and 55)
BuilderRetLate(value, rest) ==
    /\ built
    /\ options' = BuilderRetOp(options, value, rest)
    /\ regB' = Register(regB, rest, RegRet(value))
    /\ last' = Did("builderRet")
    /\ UNCHANGED <<built, state, mockData, reg, inputs, seen, heap>>
    /\ UNCHANGED composite

\* builder.args(...args), lines 24-27
BuilderArgs(args) ==
    /\ options' = [options EXCEPT !.args = args]
    /\ last' = Did("builderArgs")
    /\ UNCHANGED <<built, state, mockData, reg, regB, inputs, seen, heap>>
    /\ UNCHANGED composite

\* builder.pick(...indexes), lines 28-31
BuilderPick(indexes) ==
    /\ options' = [options EXCEPT !.select = indexes]
    /\ last' = Did("builderPick")
    /\ UNCHANGED <<built, state, mockData, reg, regB, inputs, seen, heap>>
    /\ UNCHANGED composite

\* builder.original(fn), lines 32-35; mocky.spy(other, key, builder) calls
\* it with other[key] (line 344)
BuilderOriginal(fn) ==
    /\ options' = [options EXCEPT !.original = fn]
    /\ last' = Did("builderOriginal")
    /\ UNCHANGED <<built, state, mockData, reg, regB, inputs, seen, heap>>
    /\ UNCHANGED composite

NextBuilder ==
    \/ \E rest \in {<<>>, <<0>>} : BuilderRetLate(P("late"), rest)
    \/ \E args \in {<<Name("x")>>, <<Name("y"), Name("z")>>} : BuilderArgs(args)
    \/ \E indexes \in {<<>>, <<1>>} : BuilderPick(indexes)
    \/ \E fn \in {Func("first"), Func("second")} : BuilderOriginal(fn)
    \/ \E rest \in {<<>>, <<1>>} : Ret(P("a"), rest)
    \/ \E rawArgs \in {<<P("p")>>, <<P("p"), P("q")>>} : InvokeOn(Undefined, rawArgs)
    \/ Reset

SpecBuilder == InitBuilder /\ [][NextBuilder]_vars

\* C33: what the builder held when build() was called fixes the built
\* mock: after calls of ret(), args(), pick() or original() on the builder,
\* a reset still restores the registrations of build time, an invocation
\* still records its arguments as the declaration of build time says, and
\* the body is still handed the original of build time.
C33_BuildSnapshot ==
    /\ options.original = BuildTime.original
    /\ last.op = "reset"
       => /\ state.defaultRet = BuildTime.defaultRet
          /\ state.rets = BuildTime.rets
    /\ last.op = "invoke"
       => At(state.calls, last.call)
             = deepClone(heap, getFunctionArgs(inputs[Len(inputs)], BuildTime))

----------------------------------------------------------------------------
(* Invocations that overlap: SpecOverlap *)

\* One invocation that was made: the locals of getFunctionBody (call, args,
\* ret as ctx.ret) and what it delivers, with where it is: inside its body
\* ("body"), returned as a promise nobody awaited yet ("promise"), or over
\* ("done").  promised is history: what the registrations in force when
\* the invocation was made said about its index.
Frame(r, phase, promised) ==
    [phase |-> phase, call |-> r.call, args |-> At(r.state.calls, r.call),
     kind |-> r.kind, value |-> r.value, bodyRan |-> r.bodyRan,
     ctxCall |-> r.ctxCall, ctxRet |-> r.ctxRet, ctxSelf |-> r.ctxSelf,
     orig |-> r.orig, promised |-> promised]

\* mocky.function(again).build(), mocky.function().async().build() and
\* mocky.function(again).async().build()
InitOverlap ==
    /\ options \in {[NewOptions(b) EXCEPT !.async = a] :
                      <<b, a>> \in {<<"again", FALSE>>, <<"none", TRUE>>,
                                    <<"again", TRUE>>}}
    /\ built = TRUE
    /\ state = MockReset(NoState, options)
    /\ mockData = Aliased
    /\ last = Did("build")
    /\ reg = NoRegs
    /\ regB = NoRegs
    /\ inputs = <<>>
    /\ seen = <<>>
    /\ heap = InitHeap
    /\ object = NoMock
    /\ class = NoMock
    /\ insts = {}
    /\ cfg = NoCfg
    /\ pending = <<>>

\* mock(...rawArgs), by the test or by a body of the mock that is running:
\* lines 102-115 run, and the invocation is then inside its body (line 118),
\* or over: returned or raised for a plain function, a promise for an async
\* one (lines 91-93)
Start(rawArgs) ==
    /\ built
    /\ Len(inputs) < MaxCalls
    /\ \E r \in {createFunction(Undefined, Undefined, heap, state, options, rawArgs)} :
       \E phase \in {IF r.bodyRan /\ options.body = "again" THEN "body"
                     ELSE IF options.async THEN "promise" ELSE "done"} :
          /\ state' = r.state
          /\ pending' = Append(pending, Frame(r, phase, Registered(reg, r.call)))
          /\ last' = IF phase = "done" THEN Delivered("invoke", r)
                     ELSE [Did("start") EXCEPT !.call = r.call]
    /\ inputs' = Append(inputs, rawArgs)
    /\ seen' = Append(seen, View(heap, getFunctionArgs(rawArgs, options)))
    /\ UNCHANGED <<options, built, mockData, reg, regB, heap, object, class,
                   insts, cfg>>

\* the body that was entered last and has not returned
Innermost(i) ==
    /\ i \in DOMAIN pending
    /\ pending[i].phase = "body"
    /\ \A j \in DOMAIN pending : j > i => pending[j].phase # "body"

\* the innermost body returns ctx.ret: to the caller for a plain function,
\* into the promise for an async one
Return(i) ==
    /\ Innermost(i)
    /\ pending' = [pending EXCEPT ![i].phase = IF options.async THEN "promise"
                                               ELSE "done"]
    /\ last' = IF options.async THEN [Did("return") EXCEPT !.call = pending[i].call]
               ELSE Delivered("invoke", pending[i])
    /\ UNCHANGED <<options, built, state, mockData, reg, regB, inputs, seen, heap,
                   object, class, insts, cfg>>

\* await of one of the promises, once no body is running
Await(i) ==
    /\ i \in DOMAIN pending
    /\ pending[i].phase = "promise"
    /\ \A j \in DOMAIN pending : pending[j].phase # "body"
    /\ pending' = [pending EXCEPT ![i].phase = "done"]
    /\ last' = Delivered("await", pending[i])
    /\ UNCHANGED <<options, built, state, mockData, reg, regB, inputs, seen, heap,
                   object, class, insts, cfg>>

\* mock('a'), mock('b'); mock.ret and mock.throw by the test or by a body
OverlapArgs == {<<P("a")>>, <<P("b")>>}
NextOverlap ==
    \/ \E rawArgs \in OverlapArgs : Start(rawArgs)
    \/ \E i \in 1 .. MaxCalls : Return(i)
    \/ \E i \in 1 .. MaxCalls : Await(i)
    \/ \E rest \in {<<>>, <<0>>, <<1>>} : Ret(P("r"), rest)
    \/ \E rest \in {<<>>, <<1>>} : Throw(Err("e"), rest)

SpecOverlap == InitOverlap /\ [][NextOverlap]_vars

\* invocation k got what was registered for it when it was made: the body
\* as ctx.ret, the caller of a mock with no body as the outcome
GotItsOutcome(f) ==
    IF f.bodyRan THEN f.promised.kind # "throw" /\ f.ctxRet = f.promised.value
                      /\ f.value = f.promised.value
    ELSE /\ f.value = f.promised.value
         /\ f.kind = IF options.async THEN Settled(Promised(f.promised).kind)
                      ELSE Promised(f.promised).kind

\* C32: when a body invokes its mock again before it returns, or promises
\* of an async mock are outstanding and awaited in any order, each
\* invocation has appended one entry to the log and has the index of that
\* entry, in the order the invocations were made; the index, the
\* Args-Record and the outcome of an invocation are those of the moment it
\* was made, whatever was invoked or registered before it returned or was
\* awaited.
C32_Overlapping ==
    /\ Len(state.calls) = Len(inputs)
    /\ Len(pending) = Len(inputs)
    /\ \A i \in DOMAIN pending :
          /\ pending[i].call = i - 1
          /\ pending[i].bodyRan => pending[i].ctxCall = i - 1
          /\ At(state.calls, i - 1) = pending[i].args
          /\ pending[i].args = seen[i]
          /\ GotItsOutcome(pending[i])
    /\ last.op \in {"invoke", "await"}
       => /\ last.call \in 0 .. (Len(pending) - 1)
          /\ last.kind = pending[last.call + 1].kind
          /\ last.value = pending[last.call + 1].value
          /\ pending[last.call + 1].phase = "done"

\* the first invocation of an async mock entered its body with nothing
\* registered; before it returned a default was registered and the mock
\* invoked again; the second promise was awaited first, and then the first:
\* it is fulfilled with undefined, the second with the default
C32_Witness ==
    /\ options.async /\ options.body = "again"
    /\ Len(pending) = 2
    /\ last.op = "await" /\ last.call = 0
    /\ pending[2].phase = "done"
    /\ pending[1].promised = RegRet(Undefined)
    /\ pending[2].promised = RegRet(P("r"))
    /\ reg.dflt = RegRet(P("r"))
    /\ last.value = Undefined /\ last.kind = "fulfil"
    /\ pending[2].value = P("r")

----------------------------------------------------------------------------
(* Objects that hold mocks: properties, builders and built mocks *)

\* One own property: key k, value x, and whether it was made with
\* Object.defineProperty(parent, key, { value }), which leaves it
\* non-writable and non-configurable (lines 53, 171, 235).
Prop(k, x, fixed) == [k |-> k, x |-> x, fixed |-> fixed]

\* keys that are symbols rather than strings
SymbolKeys == {"@@tag"}

\* Object.keys(object): the string keys only
OwnStringKeys(props) ==
    SelectSeq([i \in DOMAIN props |-> props[i].k], LAMBDA k : k \notin SymbolKeys)

\* Reflect.ownKeys(object): the string keys in insertion order, then the
\* symbol keys in insertion order
OwnKeys(props) ==
    LET keys == [i \in DOMAIN props |-> props[i].k]
    IN SelectSeq(keys, LAMBDA k : k \notin SymbolKeys)
          \o SelectSeq(keys, LAMBDA k : k \in SymbolKeys)

PHas(props, k) == \E i \in DOMAIN props : props[i].k = k
PIndex(props, k) == CHOOSE i \in DOMAIN props : props[i].k = k

\* object[k]
PGet(props, k) == IF PHas(props, k) THEN props[PIndex(props, k)].x ELSE Undefined

\* an assignment that takes no notice of the property being non-writable
PAssignWritable(props, k, x) ==
    IF ~PHas(props, k) THEN Append(props, Prop(k, x, FALSE))
    ELSE [props EXCEPT ![PIndex(props, k)].x = x]

\* object[k] = x: an assignment to a non-writable property changes nothing
PAssign(props, k, x) ==
    IF ~PHas(props, k) THEN Append(props, Prop(k, x, FALSE))
    ELSE IF props[PIndex(props, k)].fixed THEN props
    ELSE [props EXCEPT ![PIndex(props, k)].x = x]

\* delete object[k]: a non-configurable property stays
PDelete(props, k) ==
    IF PHas(props, k) /\ ~props[PIndex(props, k)].fixed
    THEN SelectSeq(props, LAMBDA q : q.k # k)
    ELSE props

\* the value held at k changes its own state; the property is the same
PUpdate(props, k, x) == [props EXCEPT ![PIndex(props, k)].x = x]

\* functionBuilder(body)...: the builder, its options and its static mark
FnBuilder(opts) == [t |-> "fnBuilder", v |-> [options |-> opts, static |-> FALSE]]
\* builder.static(), lines 36-39
StaticFn(opts) == [t |-> "fnBuilder", v |-> [options |-> opts, static |-> TRUE]]
\* objectBuilder(props), lines 162-176
ObjBuilder(def) == [t |-> "objBuilder", v |-> def]

\* typeof prop?.build === 'function', lines 184 and 215
IsBuilder(x) == x.t \in {"fnBuilder", "objBuilder"}

\* a built function mock: its options and its state object
FnMock(opts, st) == [t |-> "fn", v |-> [options |-> opts, state |-> st]]
\* a built object mock: its properties and the props it was defined with
ObjMock(props, def) == [t |-> "object", v |-> [props |-> props, def |-> def]]

\* createObjectWithProps, lines 209-223, and what prop.build(object, key)
\* leaves at the key (functionBuilder.build, objectBuilder.build)
RECURSIVE createObjectWithProps(_), BuildAt(_)
BuildAt(builder) ==
    IF builder.t = "fnBuilder"
    THEN FnMock(builder.v.options, MockReset(NoState, builder.v.options))
    ELSE ObjMock(createObjectWithProps(builder.v), builder.v)

createObjectWithProps(def) ==
    [i \in DOMAIN def |->
        IF IsBuilder(def[i].x) THEN Prop(def[i].k, BuildAt(def[i].x), TRUE)
        ELSE Prop(def[i].k, def[i].x, FALSE)]

----------------------------------------------------------------------------
(* wireObject, lines 178-207 *)

\* initialMocks.has(key) and initialValues.has(key), lines 182-189
InitialMock(def, key) == HasKey(def, key) /\ IsBuilder(GetKey(def, key))
InitialValue(def, key) == HasKey(def, key) /\ ~IsBuilder(GetKey(def, key))

RECURSIVE ResetValue(_), ResetLoop(_, _, _)

\* the loop walking the live key list, so that the key after a deleted one
\* is passed over
RECURSIVE ResetLoopLive(_, _, _)
ResetLoopLive(keys, props, def) ==
    IF keys = <<>> THEN props
    ELSE LET key == Head(keys)
         IN IF InitialMock(def, key)
            THEN ResetLoopLive(Tail(keys),
                               PUpdate(props, key, ResetValue(PGet(props, key))), def)
            ELSE IF InitialValue(def, key)
            THEN ResetLoopLive(Tail(keys), PAssign(props, key, GetKey(def, key)), def)
            ELSE ResetLoopLive(IF Len(keys) > 1 THEN Tail(Tail(keys)) ELSE <<>>,
                               PDelete(props, key), def)

\* the loop of lines 192-203 over keys, the own keys read before it starts
ResetLoop(keys, props, def) ==
    IF keys = <<>> THEN props
    ELSE LET key == Head(keys)
         IN IF InitialMock(def, key)
            THEN ResetLoop(Tail(keys),
                           PUpdate(props, key, ResetValue(PGet(props, key))), def)
            ELSE IF InitialValue(def, key)
            THEN ResetLoop(Tail(keys), PAssign(props, key, GetKey(def, key)), def)
            ELSE ResetLoop(Tail(keys), PDelete(props, key), def)

\* a reset that stops at the function mocks of the first level
ResetFunctionsOnly(x) ==
    IF x.t = "fn" THEN FnMock(x.v.options, MockReset(x.v.state, x.v.options))
    ELSE x

\* mock.reset() of an object mock, lines 191-204
ObjectReset(obj) ==
    ObjMock(ResetLoop(OwnKeys(obj.v.props), obj.v.props, obj.v.def), obj.v.def)

\* if (typeof mock[key]?.reset === 'function') mock[key].reset(), lines 196-197
ResetValue(x) ==
    IF x.t = "fn" THEN FnMock(x.v.options, MockReset(x.v.state, x.v.options))
    ELSE IF x.t = "object" THEN ObjectReset(x)
    ELSE x

----------------------------------------------------------------------------
(* The life of one object mock: SpecObject *)

\* mocky.object({ fn: mocky.function(attach).ret('base'), val: 'orig',
\*                sub: mocky.object({ g: mocky.function(store) }) })
ObjectDef ==
    <<Entry("fn", FnBuilder(BuilderRetOp(NewOptions("attach"), P("base"), <<>>))),
      Entry("val", P("orig")),
      Entry("sub", ObjBuilder(<<Entry("g", FnBuilder(NewOptions("store")))>>))>>

\* where the nested function mocks are: object.fn and object.sub.g
FnPaths == {<<"fn">>, <<"sub", "g">>}

\* the mock found by following path from an object mock, and the object
\* mock with the state of that mock replaced
RECURSIVE GetPath(_, _), PutPath(_, _, _)
GetPath(obj, path) ==
    IF path = <<>> THEN obj
    ELSE GetPath(PGet(obj.v.props, Head(path)), Tail(path))
PutPath(obj, path, x) ==
    IF path = <<>> THEN x
    ELSE [obj EXCEPT !.v.props =
            PUpdate(@, Head(path),
                    PutPath(PGet(obj.v.props, Head(path)), Tail(path), x))]

\* the container a nested mock was built on: state.parent, line 49
Parent(path) == SubSeq(path, 1, Len(path) - 1)

\* ctx.self[k] = x for each write of a body, on the container at path
RECURSIVE SelfWrites(_, _)
SelfWrites(props, writes) ==
    IF writes = <<>> THEN props
    ELSE SelfWrites(PAssign(props, Head(writes).k, Head(writes).x), Tail(writes))

\* the own properties of an object mock that its definition does not have
Added(obj) == SelectSeq(obj.v.props, LAMBDA q : ~HasKey(obj.v.def, q.k))

\* objectBuilder(props).build() with no parent, lines 167-174
InitObject ==
    /\ options = NewOptions("none")
    /\ built = FALSE
    /\ state = NoState
    /\ mockData = Unset
    /\ last = Did("build")
    /\ reg = NoRegs
    /\ regB = NoRegs
    /\ inputs = <<>>
    /\ seen = <<>>
    /\ heap = InitHeap
    /\ object = ObjMock(createObjectWithProps(ObjectDef), ObjectDef)
    /\ class = NoMock
    /\ insts = {}
    /\ cfg = NoCfg
    /\ pending = <<>>

\* what the operations on the object mock leave alone
ObjectFrame ==
    UNCHANGED <<options, built, state, mockData, reg, regB, inputs, seen, heap,
                class, insts, cfg, pending>>

\* object[k] = x
ObjAssign(k, x) ==
    /\ object # NoMock
    /\ object' = [object EXCEPT !.v.props = PAssign(@, k, x)]
    /\ last' = Did("assign")
    /\ ObjectFrame

\* delete object[k]
ObjDelete(k) ==
    /\ object # NoMock
    /\ object' = [object EXCEPT !.v.props = PDelete(@, k)]
    /\ last' = Did("delete")
    /\ ObjectFrame

\* object.fn.ret(value, ...rest)
ObjRet(path, value, rest) ==
    /\ object # NoMock
    /\ LET m == GetPath(object, path)
       IN object' = PutPath(object, path,
                            FnMock(m.v.options, MockRet(m.v.state, value, rest)))
    /\ last' = Did("ret")
    /\ ObjectFrame

\* object.fn.throw(error, ...rest)
ObjThrow(path, error, rest) ==
    /\ object # NoMock
    /\ LET m == GetPath(object, path)
       IN object' = PutPath(object, path,
                            FnMock(m.v.options, MockThrow(m.v.state, error, rest)))
    /\ last' = Did("throw")
    /\ ObjectFrame

\* the object mock after the writes a body made on self, when self is one
\* of its containers
ContainerWrites(obj, self, writes) ==
    IF self.t = "container"
    THEN PutPath(obj, self.v,
                 [GetPath(obj, self.v) EXCEPT !.v.props = SelfWrites(@, writes)])
    ELSE obj

\* object.fn.call(parent, ...rawArgs): the mock at path, built on the
\* container that holds it (build(object, key), line 216), called on parent
ObjInvokeOn(parent, path, rawArgs) ==
    /\ object # NoMock
    /\ LET m == GetPath(object, path)
           r == createFunction(parent, Container(Parent(path)), heap,
                               m.v.state, m.v.options, rawArgs)
           called == PutPath(object, path, FnMock(m.v.options, r.state))
       IN /\ Len(m.v.state.calls) < MaxCalls
          /\ object' = ContainerWrites(called, r.ctxSelf, r.self)
          /\ heap' = HeapWrites(heap, r.ctxSelf, r.self)
          /\ last' = [Delivered("invoke", r) EXCEPT !.on = parent,
                                                    !.target = <<"object">> \o path]
    /\ UNCHANGED <<options, built, state, mockData, reg, regB, inputs, seen,
                   class, insts, cfg, pending>>

\* object.fn(...rawArgs), object.sub.g(...rawArgs): the receiver is the
\* container
ObjInvoke(path, rawArgs) == ObjInvokeOn(Container(Parent(path)), path, rawArgs)

\* object.reset(), and the reset() of a mock nested in it
ObjReset(path) ==
    /\ object # NoMock
    /\ object' = PutPath(object, path,
                         LET m == GetPath(object, path)
                         IN IF m.t = "object" THEN ObjectReset(m)
                            ELSE FnMock(m.v.options, MockReset(m.v.state, m.v.options)))
    /\ last' = [Did("reset") EXCEPT
                    !.before = [calls |-> Len(GetPath(object, <<"fn">>).v.state.calls),
                                data |-> GetPath(object, <<"sub", "g">>).v.state.data
                                            # EmptyBag,
                                live |-> LET fn == GetPath(object, <<"fn">>).v
                                         IN MockReset(fn.state, fn.options).rets
                                               # fn.state.rets,
                                added |-> Added(object)],
                    !.target = <<"object">> \o path]
    /\ ObjectFrame

NextObject ==
    \/ \E k \in {"val", "extra", "@@tag", "fn"} : ObjAssign(k, P("changed"))
    \/ \E k \in {"val", "extra", "fn"} : ObjDelete(k)
    \/ \E rest \in {<<>>, <<0>>} : ObjRet(<<"fn">>, P("a"), rest)
    \/ ObjThrow(<<"fn">>, Err("e"), <<>>)
    \/ \E path \in FnPaths : ObjInvoke(path, <<P("x")>>)
    \/ \E path \in {<<>>, <<"sub">>, <<"fn">>} : ObjReset(path)

SpecObject == InitObject /\ [][NextObject]_vars

----------------------------------------------------------------------------
(* Claims about the reset of an object mock, checked under SpecObject *)

\* object.reset() is the operation that just ran
ObjectWasReset == last.op = "reset" /\ last.target = <<"object">>

\* C12: after reset() of an object mock every own key of the container is a
\* key of its definition: the keys, string or symbol, added since build by
\* assignment or by a member's body through ctx.self are absent.
C12_ResetRemovesAdded ==
    ObjectWasReset
    => /\ \A i \in DOMAIN object.v.props : HasKey(object.v.def, object.v.props[i].k)
       /\ \A i \in DOMAIN last.before.added :
             ~PHas(object.v.props, last.before.added[i].k)

\* reset() found extra, written by the body of fn through ctx.self, and the
\* symbol key, assigned by the test; both are gone
C12_Witness ==
    /\ ObjectWasReset
    /\ last.before.added = <<Prop("extra", P("attached"), FALSE),
                             Prop("@@tag", P("changed"), FALSE)>>
    /\ ~PHas(object.v.props, "extra") /\ ~PHas(object.v.props, "@@tag")

\* C13: after reset() of an object mock every key that holds a plain value
\* in the definition is present and holds its definition value, whatever was
\* done to it since build (reassignment or deletion).
C13_ResetRestoresValues ==
    ObjectWasReset
    => \A i \in DOMAIN object.v.def :
          ~IsBuilder(object.v.def[i].x)
          => /\ PHas(object.v.props, object.v.def[i].k)
             /\ PGet(object.v.props, object.v.def[i].k) = object.v.def[i].x

\* the builder options a definition holds for the function mock at path
RECURSIVE DefinedOptions(_, _)
DefinedOptions(def, path) ==
    IF Len(path) = 1 THEN GetKey(def, Head(path)).v.options
    ELSE DefinedOptions(GetKey(def, Head(path)).v, Tail(path))

\* C14: after reset() of an object mock every nested mock of its definition,
\* at every level, is still in place, and each nested function mock has an
\* empty call log, an empty data bag and exactly the outcomes configured on
\* its builder.
C14_ResetRecurses ==
    ObjectWasReset
    => /\ GetPath(object, <<"sub">>).t = "object"
       /\ \A path \in FnPaths :
             LET m == GetPath(object, path)
                 opts == DefinedOptions(ObjectDef, path)
             IN /\ m.t = "fn"
                /\ m.v.state.calls = <<>>
                /\ m.v.state.data = EmptyBag
                /\ m.v.state.defaultRet = opts.defaultRet
                /\ m.v.state.rets = opts.rets

\* reset() found two recorded calls and a live ret(value, 0) on fn and a
\* written data bag on sub.g, two levels down
C14_Witness ==
    /\ ObjectWasReset
    /\ last.before.calls = 2 /\ last.before.live /\ last.before.data
    /\ GetPath(object, <<"sub", "g">>).v.state.data = EmptyBag
    /\ GetPath(object, <<"fn">>).v.state.rets[0] = Absent

----------------------------------------------------------------------------
(* The data bags of a function mock and of sibling mocks: SpecData *)

\* mocky.object({ fn: mocky.function(store), fn2: mocky.function(store),
\*                sub: mocky.object({ g: mocky.function(store) }) })
SiblingsDef ==
    <<Entry("fn", FnBuilder(NewOptions("store"))),
      Entry("fn2", FnBuilder(NewOptions("store"))),
      Entry("sub", ObjBuilder(<<Entry("g", FnBuilder(NewOptions("store")))>>))>>

InitSiblings ==
    /\ options = NewOptions("none")
    /\ built = FALSE
    /\ state = NoState
    /\ mockData = Unset
    /\ last = Did("build")
    /\ reg = NoRegs
    /\ regB = NoRegs
    /\ inputs = <<>>
    /\ seen = <<>>
    /\ heap = InitHeap
    /\ object = ObjMock(createObjectWithProps(SiblingsDef), SiblingsDef)
    /\ class = NoMock
    /\ insts = {}
    /\ cfg = NoCfg
    /\ pending = <<>>

\* the members are called and the members and the containers reset
NextSiblings ==
    \/ \E path \in {<<"fn">>, <<"fn2">>, <<"sub", "g">>} : ObjInvoke(path, <<P("x")>>)
    \/ \E path \in {<<>>, <<"fn">>, <<"sub">>} : ObjReset(path)

\* one standalone function mock, or one object mock with sibling members
InitData == InitDelivery \/ InitSiblings
NextData == NextDelivery \/ NextSiblings

SpecData == InitData /\ [][NextData]_vars

\* the function mocks of SiblingsDef, and the bag and the log of each
SiblingPaths == {<<"fn">>, <<"fn2">>, <<"sub", "g">>}
BagAt(path) == GetPath(object, path).v.state.data
LogAt(path) == GetPath(object, path).v.state.calls

\* C26: mock.data and the ctx.data of every invocation are one bag: a key
\* the test wrote through mock.data is what the body reads, a key the body
\* wrote is read through mock.data, a key once written stays until reset()
\* through registrations and invocations, and after reset() mock.data and
\* state.data are the same empty bag.  The function mocks of one container
\* have a bag each: a bag is written by the invocations of its own mock only
\* and emptied by the reset of its own mock or of a container above it.
C26_DataBag ==
    /\ [](object # NoMock
            => \A path \in SiblingPaths :
                  BagAt(path) = IF LogAt(path) = <<>> THEN EmptyBag
                                ELSE [EmptyBag EXCEPT !["k"] = P("d")])
    /\ [](built
            => /\ \A k \in DataKeys : MockDataGet(mockData, state, k) = state.data[k]
               /\ (last.op = "reset" /\ last.target = <<"mock">>)
                  => (mockData = Aliased /\ state.data = EmptyBag)
               /\ (last.op = "invoke" /\ last.bodyRan /\ options.body = "read")
                  => last.value = IF MockDataGet(mockData, state, "k") = Absent
                                  THEN Undefined
                                  ELSE MockDataGet(mockData, state, "k")
               /\ (last.op = "invoke" /\ last.bodyRan /\ options.body = "store")
                  => MockDataGet(mockData, state, "k") = P("d"))
    /\ [][(built /\ last'.op \notin {"reset", "build"})
            => \A k \in DataKeys :
                  state.data[k] # Absent => state'.data[k] # Absent]_vars

\* the test wrote mock.data.k = 'w' and registered a default; the second
\* invocation's body read 'w' from ctx.data
C26_Witness ==
    /\ built /\ options.body = "read"
    /\ last.op = "invoke" /\ ThisCall = 1 /\ last.bodyRan
    /\ reg.dflt = RegRet(P("a"))
    /\ last.value = P("w")
    /\ mockData = Aliased /\ state.data["k"] = P("w")

----------------------------------------------------------------------------
(* classBuilder, createClass and wireClass, lines 225-307 *)

\* a Description: the plain object createObjectWithProps(options.members)
\* returns, with its own properties
Description(props) == [t |-> "desc", v |-> props]

\* the slots state.descriptions can hold; an empty slot reads undefined
Slots == 0 .. (MaxInst - 1)
NoDescriptions == [i \in Slots |-> Undefined]

\* member?.__mockyStatic, line 265
IsStatic(x) == x.t = "fnBuilder" /\ x.v.static

\* the keys createClass pushes on state.statics, lines 259-269, in order
StaticKeys(members) ==
    LET picked == SelectSeq(members, LAMBDA e : e.k # "constructor" /\ IsStatic(e.x))
    IN [i \in DOMAIN picked |-> picked[i].k]

\* the static members built on the class itself: member.build(Mock, key)
StaticProps(members) ==
    LET picked == SelectSeq(members, LAMBDA e : e.k # "constructor" /\ IsStatic(e.x))
    IN [i \in DOMAIN picked |-> Prop(picked[i].k, BuildAt(picked[i].x), TRUE)]

\* a built class mock: the members it was defined with, state.descriptions,
\* state.numInstances, state.data, state.statics and the own properties of
\* the constructor function that hold the static mocks
ClassMock(members, descriptions, numInstances, props) ==
    [t |-> "class",
     v |-> [members |-> members, descriptions |-> descriptions,
            numInstances |-> numInstances, data |-> EmptyBag,
            statics |-> StaticKeys(members), props |-> props]]

\* a reset that leaves the static members as they are
KeepStatics(keys, props) == props

\* the loop of lines 299-302 over state.statics
RECURSIVE ResetStatics(_, _)
ResetStatics(keys, props) ==
    IF keys = <<>> THEN props
    ELSE ResetStatics(Tail(keys),
                      PUpdate(props, Head(keys), ResetValue(PGet(props, Head(keys)))))

\* a reset that leaves the Descriptions in their slots
ResetKeepsDescriptions(cls) ==
    [cls EXCEPT !.v.numInstances = 0,
                !.v.data = EmptyBag,
                !.v.props = ResetStatics(cls.v.statics, cls.v.props)]

\* Mock.reset(), lines 295-303
ClassReset(cls) ==
    [cls EXCEPT !.v.descriptions = NoDescriptions,
                !.v.numInstances = 0,
                !.v.data = EmptyBag,
                !.v.props = ResetStatics(cls.v.statics, cls.v.props)]

\* a lookup that makes a new Description each time
AlwaysCreate(cls, index) ==
    [cls EXCEPT !.v.descriptions[index] =
                   Description(createObjectWithProps(cls.v.members))]

\* if (!state.descriptions[index]) state.descriptions[index] =
\*     createObjectWithProps(options.members), lines 246-247 and 288-289
EnsureDescription(cls, index) ==
    IF cls.v.descriptions[index] = Undefined
    THEN [cls EXCEPT !.v.descriptions[index] =
                        Description(createObjectWithProps(cls.v.members))]
    ELSE cls

\* the function mock at key of the Description in slot index, replaced
WithMember(cls, index, key, m) ==
    [cls EXCEPT !.v.descriptions[index].v = PUpdate(@, key, m)]

\* the class mock after the writes a body made on self: on a Description
\* they are its properties; on an instance a key with an accessor goes to the
\* instance's Description (lines 275-277) and any other key becomes an own
\* property of the instance, which the class mock does not hold
RECURSIVE MemberWrites(_, _, _)
MemberWrites(cls, self, writes) ==
    IF writes = <<>> \/ self.t \notin {"description", "instance"} THEN cls
    ELSE LET w == Head(writes)
             forwarded == \E i \in DOMAIN cls.v.members :
                             /\ cls.v.members[i].k = w.k
                             /\ w.k # "constructor"
                             /\ ~IsStatic(cls.v.members[i].x)
         IN MemberWrites(
               IF self.t = "description" \/ forwarded
               THEN [cls EXCEPT !.v.descriptions[self.v].v = PAssign(@, w.k, w.x)]
               ELSE cls,
               self, Tail(writes))

\* a construction that counts the instance before its constructor member
\* is called
ConstructCountsFirst(h, c1, rawArgs, index) ==
    LET ctor == PGet(c1.v.descriptions[index].v, "constructor")
        Called(r) ==
            [class |-> [WithMember(c1, index, "constructor",
                                   FnMock(ctor.v.options, r.state))
                          EXCEPT !.v.numInstances = @ + 1],
             done |-> r.kind # "raise", index |-> index, r |-> r]
    IN IF ctor.t = "fn"
       THEN Called(createFunction(InstanceAt(index), DescriptionAt(index), h,
                                  ctor.v.state, ctor.v.options, rawArgs))
       ELSE [class |-> [c1 EXCEPT !.v.numInstances = @ + 1],
             done |-> TRUE, index |-> index,
             r |-> [kind |-> "return", value |-> Undefined, call |-> -1,
                    bodyRan |-> FALSE, ctxCall |-> -1, ctxRet |-> Undefined,
                    ctxSelf |-> Absent, orig |-> <<>>]]

\* lines 249-254 once the slot holds its Description: the constructor member,
\* a mock built on the Description (line 216), is called on the new instance
\* with the arguments and the counter goes up, unless the call raised.  The
\* result is the class afterwards, whether the construction completed, the
\* slot and what the constructor member delivered.
ConstructOn(h, c1, rawArgs, index) ==
    LET ctor == PGet(c1.v.descriptions[index].v, "constructor")
        Called(r) ==
            LET c2 == MemberWrites(WithMember(c1, index, "constructor",
                                              FnMock(ctor.v.options, r.state)),
                                   r.ctxSelf, r.self)
            IN IF r.kind = "raise"
               THEN [class |-> c2, done |-> FALSE, index |-> index, r |-> r]
               ELSE [class |-> [c2 EXCEPT !.v.numInstances = @ + 1],
                     done |-> TRUE, index |-> index, r |-> r]
    IN IF ctor.t = "fn"
       THEN Called(createFunction(InstanceAt(index), DescriptionAt(index), h,
                                  ctor.v.state, ctor.v.options, rawArgs))
       ELSE [class |-> [c1 EXCEPT !.v.numInstances = @ + 1],
             done |-> TRUE, index |-> index,
             r |-> [kind |-> "return", value |-> Undefined, call |-> -1,
                    bodyRan |-> FALSE, ctxCall |-> -1, ctxRet |-> Undefined,
                    ctxSelf |-> Absent, orig |-> <<>>]]

\* a construction that takes the lowest slot holding no Description
ConstructNextFree(h, cls, rawArgs) ==
    LET free == {i \in DOMAIN cls.v.descriptions : cls.v.descriptions[i] = Undefined}
        index == IF free = {} THEN cls.v.numInstances
                 ELSE CHOOSE i \in free : \A n \in free : i <= n
    IN ConstructOn(h, EnsureDescription(cls, index), rawArgs, index)

\* a construction that always makes a new Description for its slot
ConstructFresh(h, cls, rawArgs) ==
    LET index == cls.v.numInstances
    IN ConstructOn(h, [cls EXCEPT !.v.descriptions[index] =
                           Description(createObjectWithProps(cls.v.members))],
                   rawArgs, index)

\* new Mock(...rawArgs), lines 243-255: the slot is the counter's value, and
\* its Description is created when the slot is empty
Construct(h, cls, rawArgs) ==
    LET index == cls.v.numInstances
    IN ConstructOn(h, EnsureDescription(cls, index), rawArgs, index)

----------------------------------------------------------------------------------------------------------------------------------------
(* Instances of the class mock and of a class that extends it *)

\* class Child extends Mock { childOnly() { return 'child' } }: the own keys
\* of Child.prototype
ChildKeys == {"childOnly"}

\* the keys createClass defines an accessor for on Mock.prototype, lines
\* 259-280: every member that is neither the constructor nor static
Accessors(members) ==
    {members[i].k : i \in {n \in DOMAIN members :
                             members[n].k # "constructor" /\ ~IsStatic(members[n].x)}}

\* an instance: its own __mockyInst (line 249) and the class it was made with
Instance(index, proto) == [mockyInst |-> index, proto |-> proto]

\* the getter reading the Description of the latest construction
InstGetLatest(cls, inst, key) ==
    IF inst.proto = "Child" /\ key \in ChildKeys THEN P("child")
    ELSE IF key \in Accessors(cls.v.members)
    THEN PGet(cls.v.descriptions[cls.v.numInstances - 1].v, key)
    ELSE Undefined

\* instance[key]: the nearest prototype that has the key answers, and the
\* getter of Mock.prototype reads state.descriptions[this.__mockyInst][key]
InstGet(cls, inst, key) ==
    IF inst.proto = "Child" /\ key \in ChildKeys THEN P("child")
    ELSE IF key \in Accessors(cls.v.members)
    THEN PGet(cls.v.descriptions[inst.mockyInst].v, key)
    ELSE Undefined

\* instance[key] = x: the setter of Mock.prototype, when the key has one,
\* assigns state.descriptions[this.__mockyInst][key]; any other key becomes
\* an own property of the instance and the class mock is not touched
InstSet(cls, inst, key, x) ==
    IF key \in Accessors(cls.v.members)
    THEN [cls EXCEPT !.v.descriptions[inst.mockyInst].v = PAssign(@, key, x)]
    ELSE cls

\* Mock.inst(index)[key] = x
DescSet(cls, index, key, x) ==
    [EnsureDescription(cls, index) EXCEPT
        !.v.descriptions[index].v = PAssign(@, key, x)]

\* Mock.inst(index = 0): the index used, given the arguments of the call
InstIndex(args) == IF Len(args) = 0 THEN 0 ELSE args[1]

----------------------------------------------------------------------------
(* The life of one class mock: SpecClass and SpecInstances *)

\* mocky.class({ constructor: mocky.function(), method: mocky.function().ret('base'),
\*               count: 'zero', items: a1, util: mocky.function().static() })
ClassDef ==
    <<Entry("constructor", FnBuilder(NewOptions("none"))),
      Entry("method", FnBuilder(BuilderRetOp(NewOptions("none"), P("base"), <<>>))),
      Entry("count", P("zero")),
      Entry("items", Ref("a1")),
      Entry("util", StaticFn(NewOptions("none")))>>

\* classBuilder(members).build() with no parent: wireClass ends with Mock.reset()
BuildClass(members) ==
    ClassReset(ClassMock(members, NoDescriptions, 0, StaticProps(members)))

InitClass ==
    /\ options = NewOptions("none")
    /\ built = FALSE
    /\ state = NoState
    /\ mockData = Unset
    /\ last = Did("build")
    /\ reg = NoRegs
    /\ regB = NoRegs
    /\ inputs = <<>>
    /\ seen = <<>>
    /\ heap = InitHeap
    /\ object = NoMock
    /\ class = BuildClass(ClassDef)
    /\ insts = {}
    /\ cfg = NoCfg
    /\ pending = <<>>

\* what the operations on the class mock leave alone
ClassFrame ==
    UNCHANGED <<options, built, state, mockData, reg, regB, inputs, seen, object,
                pending>>

\* what an operation on slot index found: the instance count, and whether
\* the slot held a Description
Found(cls, index) ==
    [NoBefore EXCEPT !.calls = cls.v.numInstances,
                     !.live = cls.v.descriptions[index] # Undefined]

\* new Mock(...rawArgs) or new Child(...rawArgs)
New(rawArgs, proto) ==
    /\ class # NoMock
    /\ class.v.numInstances < MaxInst
    /\ \E c \in {Construct(heap, class, rawArgs)} :
          /\ class' = c.class
          /\ insts' = IF c.done THEN insts \cup {Instance(c.index, proto)} ELSE insts
          /\ cfg' = IF c.done THEN [cfg EXCEPT !.made = @ + 1] ELSE cfg
          /\ last' = [Delivered("new", c.r) EXCEPT
                         !.on = InstanceAt(c.index),
                         !.before = Found(class, c.index),
                         !.target = <<"inst", c.index>>]
    /\ UNCHANGED heap
    /\ ClassFrame

\* Mock.inst(...args), lines 287-292
ClassInst(args) ==
    /\ class # NoMock
    /\ class' = EnsureDescription(class, InstIndex(args))
    /\ last' = [Did("inst") EXCEPT !.value = Arr(args),
                                   !.before = Found(class, InstIndex(args)),
                                   !.target = <<"inst", InstIndex(args)>>]
    /\ UNCHANGED <<insts, cfg, heap>>
    /\ ClassFrame

\* Mock.inst(index).method.ret(value)
MemberRet(index, key, value, rest) ==
    /\ class # NoMock
    /\ LET c == EnsureDescription(class, index)
           m == PGet(c.v.descriptions[index].v, key)
       IN class' = WithMember(c, index, key,
                              FnMock(m.v.options, MockRet(m.v.state, value, rest)))
    /\ cfg' = [cfg EXCEPT !.slots[index].ret = RegRet(value),
                          !.slots[index].pre = @ \/ class.v.numInstances <= index]
    /\ last' = [Did("ret") EXCEPT !.target = <<"inst", index>>]
    /\ UNCHANGED <<insts, heap>>
    /\ ClassFrame

\* Mock.inst(index).count = x
DescWrite(index, key, x) ==
    /\ class # NoMock
    /\ class' = DescSet(class, index, key, x)
    /\ cfg' = [cfg EXCEPT !.slots[index].count = x,
                          !.slots[index].pre = @ \/ class.v.numInstances <= index]
    /\ last' = [Did("descWrite") EXCEPT !.value = x, !.target = <<"inst", index>>]
    /\ UNCHANGED <<insts, heap>>
    /\ ClassFrame

\* instance.method(...rawArgs) on an instance whose slot holds a Description
InstInvoke(inst, key, rawArgs) ==
    /\ class # NoMock
    /\ inst \in insts
    /\ class.v.descriptions[inst.mockyInst] # Undefined
    /\ \E m \in {InstGet(class, inst, key)} :
       \E r \in {createFunction(InstanceAt(inst.mockyInst),
                                DescriptionAt(inst.mockyInst), heap,
                                m.v.state, m.v.options, rawArgs)} :
          /\ Len(m.v.state.calls) < MaxCalls
          /\ class' = MemberWrites(WithMember(class, inst.mockyInst, key,
                                              FnMock(m.v.options, r.state)),
                                   r.ctxSelf, r.self)
          /\ last' = [Delivered("invoke", r) EXCEPT
                         !.on = InstanceAt(inst.mockyInst),
                         !.target = <<"inst", inst.mockyInst>>]
    /\ UNCHANGED <<insts, cfg, heap>>
    /\ ClassFrame

\* instance.count = x
InstWrite(inst, key, x) ==
    /\ class # NoMock
    /\ inst \in insts
    /\ class.v.descriptions[inst.mockyInst] # Undefined
    /\ class' = InstSet(class, inst, key, x)
    /\ cfg' = [cfg EXCEPT !.slots[inst.mockyInst].count = x]
    /\ last' = [Did("instWrite") EXCEPT !.value = x,
                                        !.target = <<"inst", inst.mockyInst>>]
    /\ UNCHANGED <<insts, heap>>
    /\ ClassFrame

\* instance.items[i] = x: the array the member holds is changed in place
InstMutate(inst, key, i, x) ==
    /\ class # NoMock
    /\ inst \in insts
    /\ class.v.descriptions[inst.mockyInst] # Undefined
    /\ LET r == InstGet(class, inst, key)
       IN /\ r.t = "ref"
          /\ heap[r.v].t = "arr"
          /\ i < Len(heap[r.v].v)
          /\ heap' = [heap EXCEPT ![r.v].v = SetElem(@, i, x)]
    /\ last' = [Did("mutate") EXCEPT !.value = x,
                                     !.target = <<"inst", inst.mockyInst>>]
    /\ cfg' = [cfg EXCEPT !.slots[inst.mockyInst].items = x]
    /\ UNCHANGED <<class, insts>>
    /\ ClassFrame

\* Mock.util(...rawArgs)
StaticInvoke(key, rawArgs) ==
    /\ class # NoMock
    /\ \E m \in {PGet(class.v.props, key)} :
       \E r \in {createFunction(ClassItself, ClassItself, heap,
                                m.v.state, m.v.options, rawArgs)} :
          /\ Len(m.v.state.calls) < MaxCalls
          /\ class' = [class EXCEPT !.v.props =
                          PUpdate(@, key, FnMock(m.v.options, r.state))]
          /\ last' = Delivered("invoke", r)
    /\ UNCHANGED <<insts, cfg, heap>>
    /\ ClassFrame

\* Mock.util.ret(value, ...rest)
StaticRet(key, value, rest) ==
    /\ class # NoMock
    /\ LET m == PGet(class.v.props, key)
       IN class' = [class EXCEPT !.v.props =
                       PUpdate(@, key, FnMock(m.v.options,
                                              MockRet(m.v.state, value, rest)))]
    /\ last' = Did("ret")
    /\ UNCHANGED <<insts, cfg, heap>>
    /\ ClassFrame

\* Mock.reset(); the instances made before it stay with the test
ResetClass ==
    /\ class # NoMock
    /\ class' = ClassReset(class)
    /\ cfg' = NoCfg
    /\ last' = [Did("reset") EXCEPT
                    !.before = [calls |-> class.v.numInstances,
                                data |-> PGet(class.v.props, "util").v.state
                                            # PGet(BuildClass(class.v.members).v.props,
                                                   "util").v.state,
                                live |-> class.v.descriptions # NoDescriptions,
                                added |-> <<>>],
                    !.target = <<"class">>]
    /\ UNCHANGED <<insts, heap>>
    /\ ClassFrame

\* construction, pre-configuration, the static member and the class reset
NextClassCore ==
    \/ New(<<P("x")>>, "Mock")
    \/ \E args \in {<<>>} \cup {<<index>> : index \in Slots} : ClassInst(args)
    \/ \E index \in Slots : MemberRet(index, "method", P("a"), <<>>)
    \/ StaticInvoke("util", <<P("x")>>)
    \/ StaticRet("util", P("a"), <<>>)
    \/ ResetClass

SpecClass == InitClass /\ [][NextClassCore]_vars

\* the test configures and uses the members of one slot, and of no other
OneSlot(index) ==
    \A i \in Slots \ {index} :
       /\ cfg.slots[i] = NoCfg.slots[i]
       /\ class.v.descriptions[i] # Undefined
          => PGet(class.v.descriptions[i].v, "method").v.state.calls = <<>>

\* construction with and without pre-configuration, and the use of the
\* members of one slot through its instance and through Mock.inst(index)
NextInstances ==
    \/ \E proto \in {"Mock", "Child"} : New(<<P("x")>>, proto)
    \/ \E index \in Slots :
          OneSlot(index) /\ MemberRet(index, "method", P("a"), <<>>)
    \/ \E index \in Slots :
          OneSlot(index) /\ DescWrite(index, "count", P("set"))
    \/ \E inst \in insts :
          OneSlot(inst.mockyInst) /\ InstInvoke(inst, "method", <<P("x")>>)
    \/ \E inst \in insts :
          OneSlot(inst.mockyInst) /\ InstWrite(inst, "count", P("changed"))
    \/ \E inst \in insts :
          OneSlot(inst.mockyInst) /\ InstMutate(inst, "items", 1, P("changed"))

SpecInstances == InitClass /\ [][NextInstances]_vars

----------------------------------------------------------------------------
(* Claims about the class mock, checked under SpecClass and SpecInstances *)

\* the Description in slot i and its member at key
Desc(i) == class.v.descriptions[i]
Member(i, key) == PGet(Desc(i).v, key)

\* the slot the latest operation was made on
OnSlot == Len(last.target) = 2 /\ last.target[1] = "inst"
Slot == last.target[2]

\* what the definition and the configuration made since the last reset say
\* slot i holds: the default outcome of method and the value of count
ExpectedDefault(i) ==
    IF cfg.slots[i].ret = NoReg
    THEN GetKey(ClassDef, "method").v.options.defaultRet.value
    ELSE cfg.slots[i].ret.value
ExpectedCount(i) ==
    IF cfg.slots[i].count = Absent THEN GetKey(ClassDef, "count")
    ELSE cfg.slots[i].count
Governed(i) ==
    /\ Desc(i) # Undefined
    /\ Member(i, "method").v.state.defaultRet.value = ExpectedDefault(i)
    /\ Member(i, "count") = ExpectedCount(i)

\* the Description a construction with arguments rawArgs leaves in a slot
\* nothing was configured on
FreshConstructed(rawArgs) ==
    LET props == createObjectWithProps(ClassDef)
        ctor == PGet(props, "constructor")
    IN Description(PUpdate(props, "constructor",
                           FnMock(ctor.v.options,
                                  [ctor.v.state EXCEPT !.calls = <<Arr(rawArgs)>>])))

\* C15: a class mock starts with no Description and instance count 0; the
\* instance count is the number of constructions completed since the last
\* reset; the k-th construction binds its instance to slot k, keeps the
\* Description found there with what was configured on it and creates one
\* otherwise, and runs that Description's constructor member once with the
\* construction's arguments.
C15_Construction ==
    class # NoMock
    => /\ last.op = "build"
          => class.v.descriptions = NoDescriptions /\ class.v.numInstances = 0
       /\ class.v.numInstances = cfg.made
       /\ \A i \in Slots :
             IF i < cfg.made
             THEN /\ Desc(i) # Undefined
                  /\ Member(i, "constructor").v.state.calls = <<Arr(<<P("x")>>)>>
                  /\ \E inst \in insts : inst.mockyInst = i
             ELSE Desc(i) # Undefined
                  => Member(i, "constructor").v.state.calls = <<>>
       /\ last.op = "new"
          => /\ Slot = cfg.made - 1
             /\ last.call = 0
             /\ Governed(Slot)
             /\ ~last.before.live /\ cfg.slots[Slot] = NoCfg.slots[Slot]
                => Desc(Slot) = FreshConstructed(<<P("x")>>)

\* the second construction found the Description that Mock.inst(1).method.ret
\* had created, and left the count at 2
C15_Witness ==
    /\ last.op = "new" /\ Slot = 1
    /\ last.before.live /\ last.before.calls = 1
    /\ cfg.slots[1].ret = RegRet(P("a"))
    /\ class.v.numInstances = 2
    /\ Member(1, "method").v.state.defaultRet.value = P("a")

\* C18: Mock.inst(i), with i = 0 when no argument is given, leaves a
\* Description in slot i, the one that was there when there was one (with
\* what was configured on it and its recorded construction), and leaves the
\* instance count as it was; a second lookup changes nothing.
C18_InstanceLookup ==
    (class # NoMock /\ last.op = "inst")
    => /\ Slot = IF last.value = Arr(<<>>) THEN 0 ELSE last.value.v[1]
       /\ class.v.numInstances = last.before.calls
       /\ class.v.numInstances = cfg.made
       /\ Governed(Slot)
       /\ Member(Slot, "constructor").v.state.calls =
             IF Slot < cfg.made THEN <<Arr(<<P("x")>>)>> ELSE <<>>
       /\ EnsureDescription(class, Slot) = class

\* Mock.inst() with no argument after one construction and a ret() on slot 0:
\* the Description of the constructed instance is still there
C18_Witness ==
    /\ last.op = "inst" /\ last.value = Arr(<<>>)
    /\ last.before.live /\ last.before.calls = 1
    /\ cfg.slots[0].ret = RegRet(P("a"))
    /\ Member(0, "method").v.state.defaultRet.value = P("a")
    /\ Member(0, "constructor").v.state.calls # <<>>

Untouched(i) ==
    /\ cfg.slots[i] = NoCfg.slots[i]
    /\ Desc(i) # Undefined => Member(i, "method").v.state.calls = <<>>

\* C16: whatever is registered, written, called or changed in place through
\* one slot, the Description of every other slot reads as the definition
\* made it: its method with no call and the builder's outcome, count and the
\* contents of items as defined.
C16_Isolation ==
    class # NoMock
    => \A i \in Slots :
          (Desc(i) # Undefined /\ Untouched(i))
          => /\ Member(i, "method").v.state.defaultRet
                   = GetKey(ClassDef, "method").v.options.defaultRet
             /\ Member(i, "count") = GetKey(ClassDef, "count")
             /\ View(heap, Member(i, "items")) = View(InitHeap, GetKey(ClassDef, "items"))

\* C17: what was registered and written through Mock.inst(k), before or
\* after the construction, governs the instance bound to slot k: its method
\* yields the registered outcome and its count reads the written value; a
\* slot that was configured before lower slots were constructed keeps its
\* Description, and the lower slots get new Descriptions of their own.
C17_PreConfiguration ==
    class # NoMock
    => /\ \A inst \in insts :
             /\ Governed(inst.mockyInst)
             /\ InstGet(class, inst, "count") = ExpectedCount(inst.mockyInst)
             /\ InstGet(class, inst, "method").v.state.defaultRet.value
                   = ExpectedDefault(inst.mockyInst)
       /\ \A i \in Slots : cfg.slots[i].pre => Governed(i)
       /\ (last.op = "invoke" /\ OnSlot) => last.value = ExpectedDefault(Slot)
       /\ \A i \in Slots :
             (i < cfg.made /\ Untouched(i))
             => Desc(i) = FreshConstructed(<<P("x")>>)

\* slot 1 was configured with ret('a') and count = 'set' before any
\* construction; after two constructions the second instance's method
\* yields 'a', its count reads 'set', and slot 0 holds a new Description
C17_Witness ==
    /\ last.op = "invoke" /\ OnSlot /\ Slot = 1
    /\ cfg.slots[1].pre
    /\ cfg.slots[1].ret = RegRet(P("a")) /\ cfg.slots[1].count = P("set")
    /\ cfg.made = 2
    /\ last.value = P("a")
    /\ \E inst \in insts :
          inst.mockyInst = 1 /\ InstGet(class, inst, "count") = P("set")
    /\ Desc(0) = FreshConstructed(<<P("x")>>)

\* C20: for every constructed instance, of the class mock or of a class
\* that extends it, and every member that is neither static nor the
\* constructor, reading instance.key gives the value Description[i].key has
\* now and writing instance.key does what writing Mock.inst(i).key does; a
\* value written through one is read through the other.
C20_Forwarding ==
    class # NoMock
    => /\ \A inst \in insts :
             Desc(inst.mockyInst) # Undefined
             => /\ \A key \in Accessors(ClassDef) :
                      InstGet(class, inst, key) = Member(inst.mockyInst, key)
                /\ \A x \in {P("changed"), P("set")} :
                      InstSet(class, inst, "count", x)
                         = DescSet(class, inst.mockyInst, "count", x)
       /\ (last.op = "instWrite" /\ OnSlot) => Member(Slot, "count") = last.value
       /\ (last.op = "descWrite" /\ OnSlot)
          => \A inst \in insts :
                inst.mockyInst = Slot => InstGet(class, inst, "count") = last.value

\* Mock.inst(1).count = 'set' was just written: the instance of Child bound
\* to slot 1 reads 'set' through Mock.prototype's getter, and childOnly from
\* its own prototype
C20_Witness ==
    /\ last.op = "descWrite" /\ OnSlot /\ Slot = 1
    /\ Instance(1, "Child") \in insts /\ Instance(0, "Mock") \in insts
    /\ cfg.slots[1].items = Absent
    /\ InstGet(class, Instance(1, "Child"), "count") = P("set")
    /\ InstGet(class, Instance(1, "Child"), "childOnly") = P("child")

\* C21: a static member is one function mock held by the class mock itself:
\* the class has it at its key, no Description has a property at a static
\* key, and a constructed instance reads undefined at that key.
C21_StaticsBypass ==
    class # NoMock
    => \A n \in DOMAIN class.v.statics :
          LET key == class.v.statics[n]
          IN /\ PGet(class.v.props, key).t = "fn"
             /\ \A inst \in insts : InstGet(class, inst, key) = Undefined
             /\ \A i \in Slots :
                   Desc(i) # Undefined => ~PHas(Desc(i).v, key)

----------------------------------------------------------------------------
(* The keys that hold mocks, under assignment, deletion and reset: SpecKeys *)

\* what container[k] = x and delete container[k] deliver for a property
\* made by Object.defineProperty(parent, key, { value: mock }): nothing
\* happens in sloppy code and a TypeError is raised in strict code
Refused(props, k, strict) ==
    IF PHas(props, k) /\ props[PIndex(props, k)].fixed /\ strict
    THEN [kind |-> "raise", value |-> Err("TypeError")]
    ELSE [kind |-> "return", value |-> Undefined]

\* object.fn = x, object.sub.g = x: an assignment on the container of path
AssignAt(path, x, strict) ==
    /\ object # NoMock
    /\ LET container == GetPath(object, Parent(path))
           k == path[Len(path)]
       IN /\ object' = PutPath(object, Parent(path),
                               [container EXCEPT !.v.props = PAssign(@, k, x)])
          /\ last' = [Did("assign") EXCEPT
                         !.kind = Refused(container.v.props, k, strict).kind,
                         !.value = Refused(container.v.props, k, strict).value,
                         !.target = <<"object">> \o path]
    /\ ObjectFrame

\* delete object.fn, delete object.sub.g
DeleteAt(path, strict) ==
    /\ object # NoMock
    /\ LET container == GetPath(object, Parent(path))
           k == path[Len(path)]
       IN /\ object' = PutPath(object, Parent(path),
                               [container EXCEPT !.v.props = PDelete(@, k)])
          /\ last' = [Did("delete") EXCEPT
                         !.kind = Refused(container.v.props, k, strict).kind,
                         !.value = Refused(container.v.props, k, strict).value,
                         !.target = <<"object">> \o path]
    /\ ObjectFrame

\* Mock.util = x
StaticAssign(key, x, strict) ==
    /\ class # NoMock
    /\ class' = [class EXCEPT !.v.props = PAssign(@, key, x)]
    /\ last' = [Did("assign") EXCEPT
                    !.kind = Refused(class.v.props, key, strict).kind,
                    !.value = Refused(class.v.props, key, strict).value,
                    !.target = <<"class", key>>]
    /\ UNCHANGED <<insts, cfg, heap>>
    /\ ClassFrame

\* delete Mock.util
StaticDelete(key, strict) ==
    /\ class # NoMock
    /\ class' = [class EXCEPT !.v.props = PDelete(@, key)]
    /\ last' = [Did("delete") EXCEPT
                    !.kind = Refused(class.v.props, key, strict).kind,
                    !.value = Refused(class.v.props, key, strict).value,
                    !.target = <<"class", key>>]
    /\ UNCHANGED <<insts, cfg, heap>>
    /\ ClassFrame

\* the keys of the object mock and of the class mock that are assigned to
\* and deleted: the nested mocks, a plain value and the static member
KeyPaths == {<<"fn">>, <<"sub">>, <<"sub", "g">>, <<"val">>}

InitKeys == InitObject \/ InitClass
NextKeys ==
    \/ \E path \in KeyPaths, strict \in BOOLEAN : AssignAt(path, P("changed"), strict)
    \/ \E path \in KeyPaths, strict \in BOOLEAN : DeleteAt(path, strict)
    \/ ObjRet(<<"fn">>, P("a"), <<>>)
    \/ \E path \in FnPaths : ObjInvoke(path, <<P("x")>>)
    \/ \E path \in {<<>>, <<"sub">>, <<"fn">>, <<"sub", "g">>} : ObjReset(path)
    \/ \E strict \in BOOLEAN : StaticAssign("util", P("changed"), strict)
    \/ \E strict \in BOOLEAN : StaticDelete("util", strict)
    \/ StaticInvoke("util", <<P("x")>>)
    \/ StaticRet("util", P("a"), <<>>)
    \/ New(<<P("x")>>, "Mock")
    \/ ResetClass

SpecKeys == InitKeys /\ [][NextKeys]_vars

\* x is the mock that builder built: a function mock with the builder's
\* options, an object mock with the builder's props
BuiltBy(x, builder) ==
    IF builder.t = "fnBuilder"
    THEN x.t = "fn" /\ x.v.options = builder.v.options
    ELSE x.t = "object" /\ x.v.def = builder.v

\* every key of def that holds a builder still holds, in props, the
\* non-writable, non-configurable property with the mock built from it, and
\* so do the keys of the object mocks nested in it
RECURSIVE HoldsItsMocks(_, _)
HoldsItsMocks(props, def) ==
    \A i \in DOMAIN def :
       IsBuilder(def[i].x)
       => /\ PHas(props, def[i].k)
          /\ props[PIndex(props, def[i].k)].fixed
          /\ BuiltBy(PGet(props, def[i].k), def[i].x)
          /\ def[i].x.t = "objBuilder"
             => HoldsItsMocks(PGet(props, def[i].k).v.props, def[i].x.v)

\* the static members of the definition, as createClass picks them
StaticDef(members) ==
    SelectSeq(members, LAMBDA e : e.k # "constructor" /\ IsStatic(e.x))

\* C30: at every nested-mock key of an object mock and at every static key
\* of a class mock the value is, for the whole life of the container, the
\* mock that build() put there: an assignment to the key, a deletion of it
\* and reset() of the mock or of its container neither replace nor remove
\* it.
C30_StableMocks ==
    /\ object # NoMock => HoldsItsMocks(object.v.props, object.v.def)
    /\ class # NoMock => HoldsItsMocks(class.v.props, StaticDef(class.v.members))

\* object.fn was called and then its key deleted in strict code: the
\* deletion raised and the mock with its log is at the key
C30_Witness ==
    /\ last.op = "delete" /\ last.target = <<"object", "fn">>
    /\ last.kind = "raise"
    /\ Len(GetPath(object, <<"fn">>).v.state.calls) = 1

----------------------------------------------------------------------------
(* Constructions that fail: SpecFailed *)

\* mocky.class({ constructor: mocky.function(raise), util: ... }): the
\* body of the constructor member raises
RaisingDef ==
    <<Entry("constructor", FnBuilder(NewOptions("raise"))),
      Entry("method", FnBuilder(NewOptions("none"))),
      Entry("util", StaticFn(NewOptions("none")))>>

InitFailed ==
    /\ options = NewOptions("none")
    /\ built = FALSE
    /\ state = NoState
    /\ mockData = Unset
    /\ last = Did("build")
    /\ reg = NoRegs
    /\ regB = NoRegs
    /\ inputs = <<>>
    /\ seen = <<>>
    /\ heap = InitHeap
    /\ object = NoMock
    /\ class \in {BuildClass(ClassDef), BuildClass(RaisingDef)}
    /\ insts = {}
    /\ cfg = NoCfg
    /\ pending = <<>>

\* the call log of the constructor member of slot i; no log while the slot
\* holds no Description
CtorLog(cls, i) ==
    IF cls.v.descriptions[i] = Undefined THEN <<>>
    ELSE PGet(cls.v.descriptions[i].v, "constructor").v.state.calls

\* Mock.inst(index).constructor.throw(error, ...rest)
CtorThrow(index, error, rest) ==
    /\ class # NoMock
    /\ \E c \in {EnsureDescription(class, index)} :
       \E m \in {PGet(c.v.descriptions[index].v, "constructor")} :
          class' = WithMember(c, index, "constructor",
                              FnMock(m.v.options, MockThrow(m.v.state, error, rest)))
    /\ cfg' = [cfg EXCEPT !.slots[index].pre = @ \/ class.v.numInstances <= index]
    /\ last' = [Did("throw") EXCEPT !.target = <<"inst", index>>]
    /\ UNCHANGED <<insts, heap>>
    /\ ClassFrame

\* new Mock('x') while the constructor member of the next slot was called
\* fewer than MaxCalls times
TryNew ==
    /\ class # NoMock
    /\ class.v.numInstances < MaxInst
    /\ Len(CtorLog(class, class.v.numInstances)) < MaxCalls
    /\ New(<<P("x")>>, "Mock")

NextFailed ==
    \/ TryNew
    \/ \E index \in Slots, rest \in {<<>>, <<0>>} : CtorThrow(index, Err("e"), rest)
    \/ ClassInst(<<>>)
    \/ ResetClass

SpecFailed == InitFailed /\ [][NextFailed]_vars

\* C35: the instance count is the number of constructions completed since
\* build or the last class reset.  Every construction is made on the slot
\* the count names and adds its call to the constructor log of that slot,
\* whose Description is there afterwards; the count goes up by one when the
\* constructor member returned and stays when it raised, so that the next
\* construction is made on the same slot and its log holds both calls.
C35_FailedConstruction ==
    /\ [](class.v.numInstances = cfg.made)
    /\ [][last'.op = "new"
           => LET i == class.v.numInstances
              IN /\ last'.target = <<"inst", i>>
                 /\ class'.v.descriptions[i] # Undefined
                 /\ Len(CtorLog(class', i)) = Len(CtorLog(class, i)) + 1
                 /\ SubSeq(CtorLog(class', i), 1, Len(CtorLog(class, i)))
                       = CtorLog(class, i)
                 /\ last'.call = Len(CtorLog(class, i))
                 /\ class'.v.numInstances
                       = IF last'.kind = "raise" THEN i ELSE i + 1]_vars

\* the first construction raised the error registered for call 0 of the
\* constructor of slot 0, the second one completed: one instance, bound to
\* slot 0, whose constructor log holds both calls
C35_Witness ==
    /\ last.op = "new" /\ last.kind = "return" /\ last.call = 1
    /\ last.target = <<"inst", 0>>
    /\ class.v.members = ClassDef
    /\ class.v.numInstances = 1 /\ cfg.made = 1
    /\ Len(CtorLog(class, 0)) = 2
    /\ class.v.descriptions[1] = Undefined

----------------------------------------------------------------------------
(* Constructions inside a constructor body: SpecNested *)

\* mocky.class({ constructor: mocky.function(nest), method: ..., util: ... })
NestingDef ==
    <<Entry("constructor", FnBuilder(NewOptions("nest"))),
      Entry("method", FnBuilder(NewOptions("none"))),
      Entry("util", StaticFn(NewOptions("none")))>>

InitNested ==
    /\ options = NewOptions("none")
    /\ built = FALSE
    /\ state = NoState
    /\ mockData = Unset
    /\ last = Did("build")
    /\ reg = NoRegs
    /\ regB = NoRegs
    /\ inputs = <<>>
    /\ seen = <<>>
    /\ heap = InitHeap
    /\ object = NoMock
    /\ class = BuildClass(NestingDef)
    /\ insts = {}
    /\ cfg = NoCfg
    /\ pending = <<>>

\* new Mock(...rawArgs), by the test or by a constructor body that is
\* running, up to the point where the body of the constructor member is
\* entered: lines 244-252.  The slot is the counter's value now.
BeginNew(rawArgs) ==
    /\ class # NoMock
    /\ class.v.numInstances + Len(pending) < MaxInst
    /\ Len(CtorLog(class, class.v.numInstances)) < MaxCalls
    /\ \E index \in {class.v.numInstances} :
       \E c1 \in {EnsureDescription(class, index)} :
       \E ctor \in {PGet(c1.v.descriptions[index].v, "constructor")} :
       \E r \in {createFunction(InstanceAt(index), DescriptionAt(index), heap,
                                ctor.v.state, ctor.v.options, rawArgs)} :
          /\ r.bodyRan
          /\ class' = WithMember(c1, index, "constructor",
                                 FnMock(ctor.v.options, r.state))
          /\ pending' = Append(pending,
                               [index |-> index] @@ Frame(r, "body", NoReg))
          /\ last' = [Did("begin") EXCEPT !.call = r.call,
                                          !.on = InstanceAt(index),
                                          !.before = Found(class, index),
                                          !.target = <<"inst", index>>]
    /\ UNCHANGED <<insts, cfg, heap>>
    /\ UNCHANGED <<options, built, state, mockData, reg, regB, inputs, seen, object>>

\* the constructor body entered last returns, and line 254 runs:
\* state.numInstances++
EndNew ==
    /\ pending # <<>>
    /\ \E top \in {pending[Len(pending)]} :
          /\ class' = [class EXCEPT !.v.numInstances = @ + 1]
          /\ insts' = insts \cup {Instance(top.index, "Mock")}
          /\ last' = [Delivered("new", top) EXCEPT
                         !.on = InstanceAt(top.index),
                         !.target = <<"inst", top.index>>]
    /\ cfg' = [cfg EXCEPT !.made = @ + 1]
    /\ pending' = SubSeq(pending, 1, Len(pending) - 1)
    /\ UNCHANGED heap
    /\ UNCHANGED <<options, built, state, mockData, reg, regB, inputs, seen, object>>

NextNested ==
    \/ \E rawArgs \in {<<>>, <<P("x")>>} : BeginNew(rawArgs)
    \/ EndNew
    \/ \E args \in {<<>>} \cup {<<index>> : index \in Slots} : ClassInst(args)
    \/ \E index \in Slots : MemberRet(index, "method", P("a"), <<>>)
    \/ StaticInvoke("util", <<P("x")>>)

SpecNested == InitNested /\ [][NextNested]_vars

\* the slots the instances the test holds are bound to
BoundSlots == {inst.mockyInst : inst \in insts}

\* C36: once no construction is in progress, the constructions completed
\* since build are bound to as many different slots, and the instance count
\* is the number of bound slots, also when a constructor body constructed
\* another instance before it returned.
C36_DistinctSlots ==
    pending = <<>>
    => /\ Cardinality(BoundSlots) = cfg.made
       /\ class.v.numInstances = Cardinality(BoundSlots)

----------------------------------------------------------------------------
(* Spies installed one over the other on one key: SpecStack *)

\* spies the test installs on obj.greet
MaxSpies == 3

\* the function mock of the i-th spy installed
SpyNamed(i) == Func(<<"spyA", "spyB", "spyC", "spyD", "spyE">>[i])

\* the spies installed so far, in the order of their installation: the
\* builder options and the state of the mock, the value createSpy read at
\* object[key] (line 343) and whether restore() was called on the spy
Spies == pending

\* what obj.greet holds now
Holds == GetKey(heap[SpyObject].v, SpyKey)

InitStack == InitSpy

\* mocky.spy(obj, 'greet'), lines 334-350: the value found at the key is the
\* original of the new spy, and the new spy takes its place
Install ==
    /\ Len(pending) < MaxSpies
    /\ \E opts \in {SpyOptions(heap, SpyObject, SpyKey)} :
          pending' = Append(pending, [options |-> opts,
                                      state |-> MockReset(NoState, opts),
                                      held |-> Holds,
                                      restored |-> FALSE])
    /\ heap' = [heap EXCEPT ![SpyObject].v = SetKey(@, SpyKey, SpyNamed(Len(pending) + 1))]
    /\ last' = [Did("spy") EXCEPT !.target = <<"spy", Len(pending) + 1>>]
    /\ UNCHANGED <<options, built, state, mockData, reg, regB, inputs, seen>>
    /\ UNCHANGED <<object, class, insts, cfg>>

\* fn.apply(self, rawArgs) for the function a key or a spy's original holds:
\* a spy records the call and, with nothing configured, applies its own
\* original to the same receiver and arguments (lines 335-340)
RECURSIVE Through(_, _, _, _, _)
Through(h, spies, fn, self, rawArgs) ==
    IF \E i \in DOMAIN spies : SpyNamed(i) = fn
    THEN LET i == CHOOSE i \in DOMAIN spies : SpyNamed(i) = fn
             st == createFunction(self, Undefined, h, spies[i].state,
                                  spies[i].options, rawArgs).state
         IN Through(h, [spies EXCEPT ![i].state = st],
                    spies[i].options.original, self, rawArgs)
    ELSE [spies |-> spies] @@ ApplyFunc(h, fn, self, rawArgs)

\* obj.greet(...rawArgs)
StackCall(rawArgs) ==
    /\ \A i \in DOMAIN pending : Len(pending[i].state.calls) < MaxCalls
    /\ \E r \in {Through(heap, pending, Holds, Ref(SpyObject), rawArgs)} :
          /\ pending' = r.spies
          /\ last' = [Did("call") EXCEPT !.kind = r.kind, !.value = r.value,
                                         !.on = Ref(SpyObject)]
    /\ UNCHANGED <<options, built, state, mockData, reg, regB, inputs, seen, heap>>
    /\ UNCHANGED <<object, class, insts, cfg>>

\* spy.restore() on the i-th spy, lines 345-347
StackRestore(i) ==
    /\ i \in DOMAIN pending
    /\ heap' = SpyRestore(heap, SpyObject, SpyKey, pending[i].options)
    /\ pending' = [pending EXCEPT ![i].restored = TRUE]
    /\ last' = [Did("restore") EXCEPT !.target = <<"spy", i>>]
    /\ UNCHANGED <<options, built, state, mockData, reg, regB, inputs, seen>>
    /\ UNCHANGED <<object, class, insts, cfg>>

NextStack ==
    \/ Install
    \/ StackCall(<<P("x")>>)
    \/ \E i \in 1..MaxSpies : StackRestore(i)

SpecStack == InitStack /\ [][NextStack]_vars

\* spy A was installed on the test's own method and spy B on spy A
Stacked ==
    /\ Len(pending) >= 2
    /\ pending[1].held = GetKey(SpyHeap[SpyObject].v, SpyKey)
    /\ pending[2].held = SpyNamed(1)

RestoreOf(i) == last.op = "restore" /\ last.target = <<"spy", i>>

\* C38: restore() of a spy writes to the key the value the key held when
\* that spy was installed, whatever the key holds now.  With spy A and then
\* spy B installed on the key, A.restore() right after B.restore() leaves
\* the test's own method at the key, and B.restore() right after
\* A.restore() leaves spy A there.
C38_StackedSpies ==
    /\ [](\A i \in DOMAIN pending : RestoreOf(i) => Holds = pending[i].held)
    /\ [][(Stacked /\ RestoreOf(2) /\ RestoreOf(1)')
           => Holds' = GetKey(SpyHeap[SpyObject].v, SpyKey)]_vars
    /\ [][(Stacked /\ RestoreOf(1) /\ RestoreOf(2)')
           => Holds' = SpyNamed(1)]_vars

\* A.restore() and then B.restore() were called on the stacked spies: the
\* key holds spy A, and a call of obj.greet made before the restores is in
\* the logs of both spies
C38_Witness ==
    /\ Stacked
    /\ RestoreOf(2)
    /\ pending[1].restored /\ pending[2].restored
    /\ Holds = SpyNamed(1)
    /\ Len(pending[1].state.calls) = 1 /\ Len(pending[2].state.calls) = 1

----------------------------------------------------------------------------
(* Instances kept over a class reset: SpecStale *)

\* instance.count: the getter of Mock.prototype (lines 272-274) reads
\* state.descriptions[this.__mockyInst][key], a TypeError when the slot
\* holds no Description
InstRead(inst, key) ==
    /\ class # NoMock
    /\ inst \in insts
    /\ last' = [Did("read") EXCEPT
                    !.kind = IF class.v.descriptions[inst.mockyInst] = Undefined
                             THEN "raise" ELSE "return",
                    !.value = IF class.v.descriptions[inst.mockyInst] = Undefined
                              THEN Err("TypeError")
                              ELSE InstGet(class, inst, key),
                    !.on = InstanceAt(inst.mockyInst),
                    !.target = <<"inst", inst.mockyInst>>]
    /\ UNCHANGED <<class, insts, cfg, heap>>
    /\ ClassFrame

\* instance.count = x: the setter of Mock.prototype (lines 275-277) writes
\* state.descriptions[this.__mockyInst][key], a TypeError when the slot
\* holds no Description
InstAssign(inst, key, x) ==
    /\ class # NoMock
    /\ inst \in insts
    /\ IF class.v.descriptions[inst.mockyInst] = Undefined
       THEN /\ class' = class
            /\ last' = [Did("assign") EXCEPT
                            !.kind = "raise", !.value = Err("TypeError"),
                            !.on = InstanceAt(inst.mockyInst),
                            !.target = <<"inst", inst.mockyInst>>]
       ELSE /\ class' = InstSet(class, inst, key, x)
            /\ last' = [Did("assign") EXCEPT
                            !.kind = "return", !.value = x,
                            !.on = InstanceAt(inst.mockyInst),
                            !.target = <<"inst", inst.mockyInst>>]
    /\ UNCHANGED <<insts, cfg, heap>>
    /\ ClassFrame

\* constructions, Mock.reset(), Mock.inst(index), Mock.inst(index).count = x
\* and the reads and writes of count on every instance the test holds
NextStale ==
    \/ New(<<P("x")>>, "Mock")
    \/ ResetClass
    \/ \E index \in Slots : ClassInst(<<index>>)
    \/ \E index \in Slots : DescWrite(index, "count", P("set"))
    \/ \E inst \in insts : InstRead(inst, "count")
    \/ \E inst \in insts : InstAssign(inst, "count", P("changed"))

SpecStale == InitClass /\ [][NextStale]_vars

\* C37: a class reset leaves the instances the test holds bound to their
\* slot index.  A read or write of a member on an instance, made before or
\* after a reset, goes to the Description its slot holds now, the one that
\* Mock.inst(index) or a later construction put there, and raises a
\* TypeError while the slot holds none, as it does right after the reset.
C37_StaleInstances ==
    /\ []((last.op \in {"read", "assign"})
          => IF last.kind = "raise"
             THEN Desc(Slot) = Undefined /\ last.value = Err("TypeError")
             ELSE Desc(Slot) # Undefined /\ Member(Slot, "count") = last.value)
    /\ [][last'.op = "reset" => insts' = insts]_vars
    /\ [][(last.op = "reset" /\ last'.op \in {"read", "assign"})
           => last'.kind = "raise"]_vars

\* the instance bound to slot 1 was constructed before the reset; after it
\* nothing was constructed, Mock.inst(1).count = 'set' was written, and the
\* instance reads 'set'
C37_Witness ==
    /\ last.op = "read" /\ last.target = <<"inst", 1>> /\ last.kind = "return"
    /\ cfg.made = 0 /\ class.v.numInstances = 0
    /\ Instance(1, "Mock") \in insts
    /\ cfg.slots[1].count = P("set")
    /\ last.value = P("set")

----------------------------------------------------------------------------
(* The receiver handed to the bodies: SpecSelf *)

\* mocky.function(attach).build()
InitAlone ==
    /\ options = NewOptions("attach")
    /\ built = TRUE
    /\ state = MockReset(NoState, options)
    /\ mockData = Aliased
    /\ last = Did("build")
    /\ reg = NoRegs
    /\ regB = NoRegs
    /\ inputs = <<>>
    /\ seen = <<>>
    /\ heap = InitHeap
    /\ object = NoMock
    /\ class = NoMock
    /\ insts = {}
    /\ cfg = NoCfg
    /\ pending = <<>>

\* mocky.spy(obj, 'greet'): the mock built at line 344 with no parent, in
\* place of the method
InitSpied ==
    /\ options = SpyOptions(SpyHeap, SpyObject, SpyKey)
    /\ built = TRUE
    /\ state = MockReset(NoState, options)
    /\ mockData = Aliased
    /\ last = Did("spy")
    /\ reg = NoRegs
    /\ regB = NoRegs
    /\ inputs = <<>>
    /\ seen = <<>>
    /\ heap = [SpyHeap EXCEPT ![SpyObject].v = SetKey(@, SpyKey, SpyFn)]
    /\ object = NoMock
    /\ class = NoMock
    /\ insts = {}
    /\ cfg = NoCfg
    /\ pending = <<>>

\* mocky.class({ constructor: mocky.function(attach), method: mocky.function(attach),
\*               util: mocky.function().static() })
SelfDef ==
    <<Entry("constructor", FnBuilder(NewOptions("attach"))),
      Entry("method", FnBuilder(NewOptions("attach"))),
      Entry("util", StaticFn(NewOptions("none")))>>

InitSelfClass ==
    /\ options = NewOptions("none")
    /\ built = FALSE
    /\ state = NoState
    /\ mockData = Unset
    /\ last = Did("build")
    /\ reg = NoRegs
    /\ regB = NoRegs
    /\ inputs = <<>>
    /\ seen = <<>>
    /\ heap = InitHeap
    /\ object = NoMock
    /\ class = BuildClass(SelfDef)
    /\ insts = {}
    /\ cfg = NoCfg
    /\ pending = <<>>

\* a standalone mock, a spy, the object mock of ObjectDef or the class mock
\* of SelfDef; the members are called on their container or instance, on
\* another object (fn.call(c1, 'x')) and with no receiver
InitSelf == InitAlone \/ InitSpied \/ InitObject \/ InitSelfClass
SelfArgs == {<<>>, <<P("x")>>}
NextSelf ==
    \/ \E parent \in {Undefined, Ref("c1")}, rawArgs \in SelfArgs :
          InvokeOn(parent, rawArgs)
    \/ Reset
    \/ \E parent \in {Container(<<>>), Ref("c1"), Undefined}, rawArgs \in SelfArgs :
          ObjInvokeOn(parent, <<"fn">>, rawArgs)
    \/ \E parent \in {Container(<<"sub">>), Ref("c1")} :
          ObjInvokeOn(parent, <<"sub", "g">>, <<P("x")>>)
    \/ ObjReset(<<>>)
    \/ \E rawArgs \in SelfArgs : New(rawArgs, "Mock")
    \/ \E inst \in insts, rawArgs \in SelfArgs : InstInvoke(inst, "method", rawArgs)
    \/ ResetClass

SpecSelf == InitSelf /\ [][NextSelf]_vars

\* the latest operation ran the body of a standalone mock, of a member of
\* the object mock, of a member of a Description
RanAlone == last.op = "invoke" /\ last.bodyRan /\ last.target = <<>>
RanInObject ==
    /\ last.op = "invoke" /\ last.bodyRan
    /\ Len(last.target) > 1 /\ last.target[1] = "object"
RanInClass == last.op \in {"invoke", "new"} /\ last.bodyRan /\ OnSlot

----------------
(* A function mock, an object mock or a class mock: SpecMocks *)

\* mocky.function(body).ret('base').ret('base', 1).build()
LiveOptions ==
    BuilderRetOp(BuilderRetOp(NewOptions("store"), P("base"), <<>>), P("base"), <<1>>)
LiveRegs ==
    Register(Register(NoRegs, <<>>, RegRet(P("base"))), <<1>>, RegRet(P("base")))

InitLive ==
    /\ options = LiveOptions
    /\ built = TRUE
    /\ state = MockReset(NoState, options)
    /\ mockData = Aliased
    /\ last = Did("build")
    /\ reg = LiveRegs
    /\ regB = LiveRegs
    /\ inputs = <<>>
    /\ seen = <<>>
    /\ heap = InitHeap
    /\ object = NoMock
    /\ class = NoMock
    /\ insts = {}
    /\ cfg = NoCfg
    /\ pending = <<>>

NextLive ==
    \/ \E value \in RetVals, rest \in Rests : Ret(value, rest)
    \/ \E error \in ThrowVals, rest \in Rests : Throw(error, rest)
    \/ \E rawArgs \in ArgChoices : Invoke(rawArgs)
    \/ Reset

\* the test builds one of the three kinds of mock and works on it
InitMocks == InitLive \/ InitObject \/ InitClass
NextMocks == NextLive \/ NextObject \/ NextClassCore

SpecMocks == InitMocks /\ [][NextMocks]_vars

\* the mocks of the object mock that have a reset(): itself, sub and fn
ResetPaths == {<<>>, <<"sub">>, <<"fn">>}

\* the object mock after reset() of the mock at path
AfterReset(obj, path) == PutPath(obj, path, ResetValue(GetPath(obj, path)))

\* C7: in every reachable state a second reset() right after a first leaves
\* what the first left: the function mock's state object, the object mock
\* with its keys, values and nested mocks (for its own reset and for the
\* reset of a mock nested in it), the class mock with its Descriptions, its
\* instance count and its static mocks.
C7_ResetIdempotent ==
    /\ built =>
          MockReset(MockReset(state, options), options) = MockReset(state, options)
    /\ object # NoMock =>
          \A path \in ResetPaths :
             AfterReset(AfterReset(object, path), path) = AfterReset(object, path)
    /\ class # NoMock =>
          ClassReset(ClassReset(class)) = ClassReset(class)

\* object.reset() was just called on a container with added keys and two
\* recorded calls of fn; val, deleted before, is still missing, and another
\* reset() changes nothing
C7_Witness ==
    /\ last.op = "reset" /\ last.target = <<"object">>
    /\ last.before.calls = 2 /\ Len(last.before.added) = 2
    /\ ~PHas(object.v.props, "val")
    /\ GetPath(object, <<"fn">>).v.state.calls = <<>>
    /\ ObjectReset(object) = object

=============================================================================
